---- MODULE Spec2Model ----
(***************************************************************************)
(* Model of the AI Context Schema validation engine:                       *)
(*   validation/schema-validator.js       (class SchemaValidator)          *)
(*   validation/compatibility-checker.js  (class CompatibilityChecker)     *)
(*                                                                         *)
(* JavaScript values are modelled as follows.                              *)
(*   - An optional property is a set with at most one element: Undefined   *)
(*     (= {}) when the key is absent, Some(v) when it holds v.             *)
(*   - A string that the code inspects character by character (id,         *)
(*     version, xmlTag) is a sequence of one-character strings.            *)
(*   - A string of which the code reads only .length (title, description)  *)
(*     is the record [length |-> n]; the markdown body _content is         *)
(*     [length, hasHash, hasFence]: its length and the two includes()      *)
(*     tests validateContent makes on it.                                  *)
(*   - A property that holds numbers on one platform and strings on        *)
(*     another (priority) holds tagged values JsNum(n) / JsStr(s).         *)
(*   - An exception is the field threw = TRUE of an operator's result.     *)
(***************************************************************************)
EXTENDS Integers, Sequences, FiniteSets, TLC

VARIABLES
  dependencies,   \* SchemaValidator.dependencies: Map id -> requires list
  pc,             \* position of the running entry point
  filePaths,      \* validateFiles: the argument
  results,        \* validateFiles: const results = []
  allSchemas,     \* validateFiles: const allSchemas = new Map()
  idx,            \* validateFiles: position of the second loop in results
  firstPass,      \* history: results as they stood when the first pass ended
  returned,       \* what the entry point returned (Undefined while running)
  arg,            \* argument of a single-call specification
  thrown,         \* TRUE once an exception escaped the entry point
  calls,          \* history: what each validateSchema call on the instance gave
  schemas,        \* checkCompatibility: const schemas = []
  checker,        \* CompatibilityChecker.results: {platforms, schemas, summary}
  exitCode,       \* the argument of process.exit (Undefined while running)
  stack,          \* hasCyclicDependencies: the calls of hasCycle that have not returned
  visitedSet,     \* hasCyclicDependencies: const visited = new Set()
  recursionSet,   \* hasCyclicDependencies: const recursionStack = new Set()
  expanded        \* history: the ids whose requires list the running search has entered

vars == <<dependencies, pc, filePaths, results, allSchemas, idx, firstPass, returned, arg, thrown,
          calls, schemas, checker, exitCode,
         stack, visitedSet, recursionSet, expanded>>

\* the state of a search of hasCyclicDependencies
search == <<stack, visitedSet, recursionSet, expanded>>

----------------------------------------------------------------------------
(* JavaScript values *)

Undefined == {}

Some(v) == {v}

Val(o) == CHOOSE v \in o : TRUE

JsNum(n) == [num |-> n]

JsStr(s) == [str |-> s]

IsNum(x) == DOMAIN x = {"num"}

\* JS truthiness of an optional boolean / number / tagged value.  Arrays and
\* objects are always truthy, so for them truthiness is presence (o # Undefined).
TruthyBool(o) == o = Some(TRUE)

TruthyNum(o) == o # Undefined /\ Val(o) # 0

TruthyStr(o) == o # Undefined /\ Val(o) # ""

TruthySeq(o) == o # Undefined /\ Val(o) # <<>>

TruthyJs(o) ==
  /\ o # Undefined
  /\ IF IsNum(Val(o)) THEN Val(o).num # 0 ELSE Val(o).str # ""

\* JS relational comparison of a tagged value with a number: a string that is
\* not numeric converts to NaN, and every comparison with NaN is false.
JsLess(x, n) == IsNum(x) /\ x.num < n

JsGreater(x, n) == IsNum(x) /\ x.num > n

Digits == {"0", "1", "2", "3", "4", "5", "6", "7", "8", "9"}

Lower == {"a", "b", "c", "d", "e", "f", "g", "h", "i", "j", "k", "l", "m",
          "n", "o", "p", "q", "r", "s", "t", "u", "v", "w", "x", "y", "z"}

Upper == {"A", "B", "C", "D", "E", "F", "G", "H", "I", "J", "K", "L", "M",
          "N", "O", "P", "Q", "R", "S", "T", "U", "V", "W", "X", "Y", "Z"}

\* s[from..to] \in class+
AllIn(s, from, to, class) ==
  /\ from <= to
  /\ \A i \in from..to : s[i] \in class

\* [...new Set(list)]: the distinct elements in order of first occurrence
RECURSIVE Dedup(_)
Dedup(list) ==
  IF list = <<>> THEN <<>>
  ELSE LET init == Dedup(SubSeq(list, 1, Len(list) - 1))
           last == list[Len(list)]
       IN IF \E i \in 1..Len(init) : init[i] = last THEN init ELSE Append(init, last)

Elems(list) == {list[i] : i \in 1..Len(list)}

\* list.filter(keep), keep given as the set of kept values
RECURSIVE Filter(_, _)
Filter(list, keep) ==
  IF list = <<>> THEN <<>>
  ELSE LET rest == Filter(Tail(list), keep)
       IN IF Head(list) \in keep THEN <<Head(list)>> \o rest ELSE rest

\* list.filter((e) => e.severity === sev)
RECURSIVE FilterSeverity(_, _)
FilterSeverity(list, sev) ==
  IF list = <<>> THEN <<>>
  ELSE LET rest == FilterSeverity(Tail(list), sev)
       IN IF Head(list).severity = sev THEN <<Head(list)>> \o rest ELSE rest

\* Map.get(key) || []
GetOrEmpty(map, key) == IF key \in DOMAIN map THEN map[key] ELSE <<>>

\* faulty variant: an existing key keeps its value
MapSetKeepFirst(map, key, value) == map @@ (key :> value)

\* Map.set(key, value)
MapSet(map, key, value) == (key :> value) @@ map

EmptyMap == <<>>

----------------------------------------------------------------------------
(* Error objects.  ids and num carry the variable part of the message:     *)
(* the ids a message lists, the number it quotes.  A parse_error entry has *)
(* no severity property: severity "undefined".                             *)

Err(type, severity, path, ids, num) ==
  [type |-> type, severity |-> severity, path |-> path, ids |-> ids, num |-> num]

----------------------------------------------------------------------------
(* SchemaValidator: platform rules *)

\* the 6000 of validatePlatformConfig's windsurf case
WindsurfCharacterLimit == 6000

MinPriority == 1

MaxPriority == 10

\* A platform configuration with no key at all.  others counts keys the
\* code never reads by name (they matter to Object.keys(config).length).
NoConfig ==
  [compatible |-> Undefined, memory |-> Undefined, command |-> Undefined,
   namespace |-> Undefined, mcpIntegration |-> Undefined, allowedTools |-> Undefined,
   activation |-> Undefined, globs |-> Undefined, priority |-> Undefined,
   characterLimit |-> Undefined, mode |-> Undefined, xmlTag |-> Undefined,
   reviewType |-> Undefined, scope |-> Undefined, others |-> 0]

\* YAML "cursor:" with nothing after it: the entry's config is null
Null == {}

\* faulty variant: only an explicit compatible: false skips the rules
NotCompatibleOnlyFalse(config) == config.compatible = Some(FALSE)

\* !config.compatible
NotCompatible(config) == ~TruthyBool(config.compatible)

validatePlatformConfig(platform, config) ==
  IF NotCompatible(config) THEN <<>>
  ELSE CASE platform = "claude-code" ->
              IF TruthyBool(config.command) /\ ~TruthyStr(config.namespace)
              THEN <<Err("missing_namespace", "warning", "platforms." \o platform \o ".namespace", <<>>, 0)>>
              ELSE <<>>
         [] platform = "cursor" ->
              IF config.activation = Some("auto-attached") /\ config.globs = Undefined
              THEN <<Err("missing_globs", "error", "platforms." \o platform \o ".globs", <<>>, 0)>>
              ELSE <<>>
         [] platform = "windsurf" ->
              IF TruthyNum(config.characterLimit) /\ Val(config.characterLimit) > WindsurfCharacterLimit
              THEN <<Err("character_limit_exceeded", "warning", "platforms." \o platform \o ".characterLimit", <<>>, 0)>>
              ELSE <<>>
         [] platform = "github-copilot" ->
              IF /\ TruthyJs(config.priority)
                 /\ \/ JsLess(Val(config.priority), MinPriority)
                    \/ JsGreater(Val(config.priority), MaxPriority)
              THEN <<Err("invalid_priority", "error", "platforms." \o platform \o ".priority", <<>>, 0)>>
              ELSE <<>>
         [] OTHER -> <<>>

----------------------------------------------------------------------------
(* SchemaValidator: content rules *)

MinContentLength == 50

SizeOverhead == 200

WindsurfSizeLimit == 6000

\* schema.title?.length || 0
LengthOrZero(s) == IF s = Undefined THEN 0 ELSE Val(s).length

\* schema.platforms?.windsurf : the entry's config, Undefined when there is none
PlatformConfig(schema, platform) ==
  LET hits == {i \in 1..Len(schema.platforms) : schema.platforms[i].name = platform}
  IN IF hits = {} THEN Undefined ELSE schema.platforms[CHOOSE i \in hits : TRUE].config

\* windsurfConfig?.compatible  (a null config short-circuits to undefined)
OptCompatible(schema, platform) ==
  LET c == PlatformConfig(schema, platform)
  IN c # Undefined /\ TruthyBool(Val(c).compatible)

\* faulty variant: the limit itself counts as too large
exceedsLimitInclusive(chars) == chars >= WindsurfSizeLimit

\* estimatedChars > 6000
exceedsLimit(chars) == chars > WindsurfSizeLimit

estimatedChars(schema) == schema.content.length + LengthOrZero(schema.title) + SizeOverhead

\* faulty variant: a body of exactly the minimum length is too short
validateContentAtMost(schema) ==
  LET content == schema.content
  IN (IF content.length <= MinContentLength
      THEN <<Err("insufficient_content", "warning", "content", <<>>, 0)>> ELSE <<>>)
     \o (IF ~content.hasHash
         THEN <<Err("missing_headers", "warning", "content", <<>>, 0)>> ELSE <<>>)
     \o (IF ~content.hasFence
         THEN <<Err("missing_examples", "warning", "content", <<>>, 0)>> ELSE <<>>)
     \o (IF exceedsLimit(estimatedChars(schema)) /\ OptCompatible(schema, "windsurf")
         THEN <<Err("windsurf_size_warning", "warning", "content", <<>>, estimatedChars(schema))>>
         ELSE <<>>)

validateContent(schema) ==
  LET content == schema.content
  IN (IF content.length < MinContentLength
      THEN <<Err("insufficient_content", "warning", "content", <<>>, 0)>> ELSE <<>>)
     \o (IF ~content.hasHash
         THEN <<Err("missing_headers", "warning", "content", <<>>, 0)>> ELSE <<>>)
     \o (IF ~content.hasFence
         THEN <<Err("missing_examples", "warning", "content", <<>>, 0)>> ELSE <<>>)
     \o (IF exceedsLimit(estimatedChars(schema)) /\ OptCompatible(schema, "windsurf")
         THEN <<Err("windsurf_size_warning", "warning", "content", <<>>, estimatedChars(schema))>>
         ELSE <<>>)

----------------------------------------------------------------------------
(* SchemaValidator: relationship rules *)

\* The closure hasCycle of hasCyclicDependencies.  visited and recursionStack
\* are the two Sets the closure shares; each call returns them as it left them.
RECURSIVE hasCycle(_, _, _, _, _), hasCycleLoop(_, _, _, _, _, _)
hasCycle(deps, schemaId, requires, visited, recursionStack) ==
  IF schemaId \in recursionStack
  THEN [ret |-> TRUE, visited |-> visited, recursionStack |-> recursionStack]
  ELSE IF schemaId \in visited
  THEN [ret |-> FALSE, visited |-> visited, recursionStack |-> recursionStack]
  ELSE hasCycleLoop(deps, schemaId, requires, 1,
                    visited \cup {schemaId}, recursionStack \cup {schemaId})

\* for (const dependency of requires), from its i-th element on
hasCycleLoop(deps, schemaId, requires, i, visited, recursionStack) ==
  IF i > Len(requires)
  THEN [ret |-> FALSE, visited |-> visited, recursionStack |-> recursionStack \ {schemaId}]
  ELSE LET r == hasCycle(deps, requires[i], GetOrEmpty(deps, requires[i]),
                         visited, recursionStack)
       IN IF r.ret THEN r
          ELSE hasCycleLoop(deps, schemaId, requires, i + 1, r.visited, r.recursionStack)

\* faulty variant: the requires list is added to the one already recorded
hasCyclicDependenciesAppend(deps, schema) ==
  LET set == MapSet(deps, schema.id, GetOrEmpty(deps, schema.id) \o schema.requires)
  IN [ret |-> hasCycle(set, schema.id, schema.requires, {}, {}).ret,
      dependencies |-> set]

\* faulty variant: the search reads the document's own requires list only
hasCyclicDependenciesOwnEdges(deps, schema) ==
  LET set == MapSet(deps, schema.id, schema.requires)
      own == MapSet(EmptyMap, schema.id, schema.requires)
  IN [ret |-> hasCycle(own, schema.id, schema.requires, {}, {}).ret,
      dependencies |-> set]

\* faulty variant: a document that names itself in requires is let through
hasCyclicDependenciesNoSelf(deps, schema) ==
  LET set == MapSet(deps, schema.id, schema.requires)
  IN [ret |-> /\ hasCycle(set, schema.id, schema.requires, {}, {}).ret
              /\ schema.id \notin Elems(schema.requires),
      dependencies |-> set]

\* returns the boolean and the dependencies map as the call leaves it
hasCyclicDependencies(deps, schema) ==
  LET set == MapSet(deps, schema.id, schema.requires)
  IN [ret |-> hasCycle(set, schema.id, schema.requires, {}, {}).ret,
      dependencies |-> set]

\* faulty variant: the requires list is filtered as it stands, not as a Set
findRelationshipConflictsNoSet(schema) ==
  LET intersection == Filter(schema.requires, Elems(schema.conflicts))
  IN IF Len(intersection) > 0
     THEN <<Err("conflicting_relationships", "error", "requires/conflicts", intersection, 0)>>
     ELSE <<>>

findRelationshipConflicts(schema) ==
  LET requires == Dedup(schema.requires)
      conflicts == Elems(schema.conflicts)
      intersection == Filter(requires, conflicts)
  IN IF Len(intersection) > 0
     THEN <<Err("conflicting_relationships", "error", "requires/conflicts", intersection, 0)>>
     ELSE <<>>

validateRelationships(schema, all) ==
  LET missing(list) == Filter(list, Elems(list) \ DOMAIN all)
      errs(list, type, severity, path) ==
        [i \in 1..Len(missing(list)) |-> Err(type, severity, path, <<missing(list)[i]>>, 0)]
  IN errs(schema.requires, "missing_dependency", "error", "requires")
     \o errs(schema.suggests, "missing_suggestion", "warning", "suggests")
     \o errs(schema.supersedes, "missing_superseded", "warning", "supersedes")

----------------------------------------------------------------------------
(* SchemaValidator: validateSchema *)

KebabChars == Lower \cup Digits \cup {"-"}

\* /^[a-z0-9-]+$/.test(id)
IsKebabCase(id) == AllIn(id, 1, Len(id), KebabChars)

IdentChars == Lower \cup Upper \cup Digits \cup {"-"}

\* /^\d+\.\d+\.\d+(-[a-zA-Z0-9-]+)?(\+[a-zA-Z0-9-]+)?$/.test(version)
\* a, b: the two dots; e: the last digit of the third number
IsSemver(version) ==
  \E a, b, e \in 1..Len(version) :
    /\ a < b /\ b < e
    /\ version[a] = "." /\ version[b] = "."
    /\ AllIn(version, 1, a - 1, Digits)
    /\ AllIn(version, a + 1, b - 1, Digits)
    /\ AllIn(version, b + 1, e, Digits)
    /\ \/ e = Len(version)
       \/ /\ e + 1 < Len(version)
          /\ version[e + 1] \in {"-", "+"}
          /\ AllIn(version, e + 2, Len(version), IdentChars)
       \/ \E p \in (e + 3)..(Len(version) - 1) :
            /\ version[e + 1] = "-"
            /\ AllIn(version, e + 2, p - 1, IdentChars)
            /\ version[p] = "+"
            /\ AllIn(version, p + 1, Len(version), IdentChars)

\* this.validator(schema): the compiled JSON Schema (schemas/v2.1.0/
\* context-schema.json).  ajvErrors is the number of entries ajv leaves in
\* this.validator.errors for the document: none exactly when it conforms.
validator(schema) == schema.ajvErrors = 0

formatAjvErrors(ajvErrors) ==
  [i \in 1..ajvErrors |-> Err("schema_validation", "error", "instancePath", <<>>, 0)]

HasNull(platforms) == \E i \in 1..Len(platforms) : platforms[i].config = Null

\* the loop over Object.entries(schema.platforms || {}): it throws a TypeError
\* at the first null config (config.compatible of null)
RECURSIVE platformLoop(_)
platformLoop(platforms) ==
  IF platforms = <<>> THEN [threw |-> FALSE, errors |-> <<>>]
  ELSE IF Head(platforms).config = Null THEN [threw |-> TRUE, errors |-> <<>>]
  ELSE LET rest == platformLoop(Tail(platforms))
           here == validatePlatformConfig(Head(platforms).name, Val(Head(platforms).config))
       IN [threw |-> rest.threw, errors |-> here \o rest.errors]

validateBusinessRules(deps, schema) ==
  LET cyc == hasCyclicDependencies(deps, schema)
      plat == platformLoop(schema.platforms)
      errors ==
        (IF cyc.ret
         THEN <<Err("cyclic_dependency", "error", "requires", <<>>, 0)>> ELSE <<>>)
        \o plat.errors
        \o (IF schema.id # <<>> /\ ~IsKebabCase(schema.id)
            THEN <<Err("invalid_id", "error", "id", <<>>, 0)>> ELSE <<>>)
        \o (IF schema.version # <<>> /\ ~IsSemver(schema.version)
            THEN <<Err("invalid_version", "error", "version", <<>>, 0)>> ELSE <<>>)
        \o findRelationshipConflicts(schema)
  IN [threw |-> plat.threw, errors |-> errors, dependencies |-> cyc.dependencies]

\* faulty variant: a warning makes the result invalid too
mergeResultStrict(schema, filePath, business, contentErrors) ==
  LET isValid == validator(schema)
      errors == (IF ~isValid THEN formatAjvErrors(schema.ajvErrors) ELSE <<>>)
                \o FilterSeverity(business, "error")
                \o FilterSeverity(contentErrors, "error")
      warnings == FilterSeverity(business, "warning")
                  \o FilterSeverity(contentErrors, "warning")
  IN [valid |-> isValid /\ Len(errors) = 0 /\ Len(warnings) = 0,
      filePath |-> filePath,
      schema |-> Some(schema),
      errors |-> errors,
      warnings |-> Some(warnings)]

\* the merge of the three passes into the result object
mergeResult(schema, filePath, business, contentErrors) ==
  LET isValid == validator(schema)
      errors == (IF ~isValid THEN formatAjvErrors(schema.ajvErrors) ELSE <<>>)
                \o FilterSeverity(business, "error")
                \o FilterSeverity(contentErrors, "error")
      warnings == FilterSeverity(business, "warning")
                  \o FilterSeverity(contentErrors, "warning")
  IN [valid |-> isValid /\ ~(Len(errors) > 0),
      filePath |-> filePath,
      schema |-> Some(schema),
      errors |-> errors,
      warnings |-> Some(warnings)]

NoResult == [valid |-> FALSE, filePath |-> Undefined, schema |-> Undefined,
             errors |-> <<>>, warnings |-> Undefined]

\* [threw, result, dependencies]: the result (when it does not throw) and the
\* dependencies map as the call leaves it (set before anything can throw)
validateSchema(deps, schema, filePath) ==
  LET business == validateBusinessRules(deps, schema)
  IN IF business.threw
     THEN [threw |-> TRUE, result |-> NoResult, dependencies |-> business.dependencies]
     ELSE [threw |-> FALSE,
           result |-> mergeResult(schema, filePath, business.errors, validateContent(schema)),
           dependencies |-> business.dependencies]

----------------------------------------------------------------------------
(* SchemaValidator: files.  A file is [readable, content]; its text is     *)
(* modelled by what parseSchema makes of it: content.frontmatter (the      *)
(* delimiter regex matches), content.yaml (yaml.load accepts the block)    *)
(* and content.schema (the document yaml.load returns, _content added).    *)

parseSchema(content) ==
  IF ~content.frontmatter THEN [threw |-> TRUE, schema |-> Undefined]
  ELSE IF ~content.yaml THEN [threw |-> TRUE, schema |-> Undefined]
  ELSE [threw |-> FALSE, schema |-> Some(content.schema)]

ParseErrorResult(filePath) ==
  [valid |-> FALSE, filePath |-> filePath, schema |-> Undefined,
   errors |-> <<Err("parse_error", "undefined", "null", <<>>, 0)>>,
   warnings |-> Undefined]

\* faulty variant: no try/catch around the three calls
validateFileUncaught(deps, filePath) ==
  LET parsed == parseSchema(filePath.content)
      checked == validateSchema(deps, Val(parsed.schema), Some(filePath))
  IN IF ~filePath.readable \/ parsed.threw
     THEN [threw |-> TRUE, result |-> NoResult, dependencies |-> deps]
     ELSE checked

\* try { readFileSync; parseSchema; validateSchema } catch { parse_error }
validateFile(deps, filePath) ==
  LET parsed == parseSchema(filePath.content)
      checked == validateSchema(deps, Val(parsed.schema), Some(filePath))
  IN IF ~filePath.readable \/ parsed.threw
     THEN [threw |-> FALSE, result |-> ParseErrorResult(Some(filePath)), dependencies |-> deps]
     ELSE IF checked.threw
     THEN [threw |-> FALSE, result |-> ParseErrorResult(Some(filePath)),
           dependencies |-> checked.dependencies]
     ELSE [threw |-> FALSE, result |-> checked.result, dependencies |-> checked.dependencies]

\* r.warnings || []
WarningsOf(r) == IF r.warnings = Undefined THEN <<>> ELSE Val(r.warnings)

RECURSIVE Sum(_)
Sum(ns) == IF ns = <<>> THEN 0 ELSE Head(ns) + Sum(Tail(ns))

CountType(list, type) == Cardinality({j \in 1..Len(list) : list[j].type = type})

TypesIn(lists) ==
  UNION {{lists[i][j].type : j \in 1..Len(lists[i])} : i \in 1..Len(lists)}

\* faulty variant: a result counts as invalid when its errors list is not empty
generateSummaryByErrors(rs) ==
  LET errs == [i \in 1..Len(rs) |-> rs[i].errors]
      warns == [i \in 1..Len(rs) |-> WarningsOf(rs[i])]
  IN [total |-> Len(rs),
      valid |-> Cardinality({i \in 1..Len(rs) : rs[i].valid}),
      invalid |-> Cardinality({i \in 1..Len(rs) : Len(rs[i].errors) > 0}),
      errors |-> Sum([i \in 1..Len(rs) |-> Len(errs[i])]),
      warnings |-> Sum([i \in 1..Len(rs) |-> Len(warns[i])]),
      errorTypes |-> [t \in TypesIn(errs) |->
                        Sum([i \in 1..Len(rs) |-> CountType(errs[i], t)])],
      warningTypes |-> [t \in TypesIn(warns) |->
                          Sum([i \in 1..Len(rs) |-> CountType(warns[i], t)])]]

generateSummary(rs) ==
  LET errs == [i \in 1..Len(rs) |-> rs[i].errors]
      warns == [i \in 1..Len(rs) |-> WarningsOf(rs[i])]
  IN [total |-> Len(rs),
      valid |-> Cardinality({i \in 1..Len(rs) : rs[i].valid}),
      invalid |-> Cardinality({i \in 1..Len(rs) : ~rs[i].valid}),
      errors |-> Sum([i \in 1..Len(rs) |-> Len(errs[i])]),
      warnings |-> Sum([i \in 1..Len(rs) |-> Len(warns[i])]),
      errorTypes |-> [t \in TypesIn(errs) |->
                        Sum([i \in 1..Len(rs) |-> CountType(errs[i], t)])],
      warningTypes |-> [t \in TypesIn(warns) |->
                          Sum([i \in 1..Len(rs) |-> CountType(warns[i], t)])]]

----------------------------------------------------------------------------
(* Inputs *)

MaxFiles == 2

MaxRelLen == 2

MaxAjvErrors == 1

MaxTitleLen == 2

MaxEntries == 1

SeqsUpTo(S, n) == UNION {[1..k -> S] : k \in 0..n}

Ids == {<<"a">>, <<"b">>, <<"c">>}

\* Scenario A of the specification, spelled in the model's values
BaseDoc ==
  [id |-> <<"a">>,
   version |-> <<"1", ".", "0", ".", "0">>,
   title |-> Some([length |-> 4]),
   description |-> Some([length |-> 33]),
   requires |-> <<>>, suggests |-> <<>>, conflicts |-> <<>>, supersedes |-> <<>>,
   platforms |-> <<>>,
   content |-> [length |-> 60, hasHash |-> TRUE, hasFence |-> TRUE],
   ajvErrors |-> 0]

OptBool == {Undefined, Some(TRUE), Some(FALSE)}

PriorityValues ==
  {Undefined, Some(JsStr("high"))}
    \cup {Some(JsNum(n)) : n \in (MinPriority - 2)..(MaxPriority + 1)}

GlobLists == {Undefined, Some(<<>>), Some(<<"*.ts">>), Some(<<"">>)}

Entry(name, config) == [name |-> name, config |-> Some(config)]

ClaudeEntries ==
  {Entry("claude-code", [NoConfig EXCEPT !.compatible = c, !.command = k,
                                         !.namespace = n, !.memory = m]) :
     c \in OptBool, k \in OptBool, n \in {Undefined, Some("ns")},
     m \in {Undefined, Some(TRUE)}}

CursorEntries ==
  {Entry("cursor", [NoConfig EXCEPT !.compatible = c, !.activation = a, !.globs = g]) :
     c \in OptBool, a \in {Undefined, Some("auto-attached"), Some("always")},
     g \in GlobLists}

WindsurfEntries ==
  {Entry("windsurf", [NoConfig EXCEPT !.compatible = c, !.characterLimit = l]) :
     c \in OptBool,
     l \in {Undefined, Some(0), Some(WindsurfCharacterLimit),
            Some(WindsurfCharacterLimit + 1)}}

CopilotEntries ==
  {Entry("github-copilot", [NoConfig EXCEPT !.compatible = c, !.priority = p]) :
     c \in OptBool, p \in PriorityValues}

GenericEntries ==
  {Entry("zed", [NoConfig EXCEPT !.compatible = c, !.others = n]) :
     c \in OptBool, n \in {0, 1}}

NullEntries == {[name |-> "cursor", config |-> Null]}

PlatformEntries ==
  ClaudeEntries \cup CursorEntries \cup WindsurfEntries \cup CopilotEntries
    \cup GenericEntries \cup NullEntries

\* Object.entries of a platforms mapping: its keys are distinct
PlatformLists ==
  {ps \in SeqsUpTo(PlatformEntries, MaxEntries) :
     \A i, j \in 1..Len(ps) : ps[i].name = ps[j].name => i = j}

Versions ==
  {<<"1", ".", "0", ".", "0">>, <<"1", ".", "0">>, <<"v", "1", ".", "0", ".", "0">>,
   <<"1", "0", ".", "2", ".", "3", "-", "r", "c", "-", "1">>,
   <<"1", ".", "0", ".", "0", "+", "b">>,
   <<"1", ".", "0", ".", "0", "-", "a", "+", "b">>,
   <<"1", ".", "0", ".", "0", "+", "b", "-", "a">>,
   <<"1", ".", "0", ".", "0", "+", "b", "+", "a">>,
   <<"1", ".", "0", ".", "0", "-">>, <<"1", ".", ".", "0">>, <<>>}

IdStrings == {<<"a">>, <<"a", "-", "1">>, <<"A">>, <<"a", "_", "b">>, <<"-">>, <<>>}

TitleValues == {Undefined} \cup {Some([length |-> n]) : n \in 0..MaxTitleLen}

\* lengths on both sides of the two thresholds validateContent compares with
ContentLengths ==
  {0, MinContentLength - 1, MinContentLength}
    \cup ((WindsurfSizeLimit - SizeOverhead - MaxTitleLen - 1)
            ..(WindsurfSizeLimit - SizeOverhead + 1))

\* a body holding a "#" has a character, one holding a fence has three
Contents ==
  {c \in [length : ContentLengths, hasHash : BOOLEAN, hasFence : BOOLEAN] :
     c.length >= (IF c.hasHash THEN 1 ELSE 0) + (IF c.hasFence THEN 3 ELSE 0)}

RelationDocs ==
  {[BaseDoc EXCEPT !.requires = r, !.conflicts = c, !.ajvErrors = n] :
     r \in SeqsUpTo(Ids, MaxRelLen), c \in SeqsUpTo(Ids, MaxRelLen),
     n \in 0..MaxAjvErrors}

FormatDocs ==
  {[BaseDoc EXCEPT !.id = i, !.version = v, !.ajvErrors = n] :
     i \in IdStrings, v \in Versions, n \in 0..MaxAjvErrors}

PlatformDocs ==
  {[BaseDoc EXCEPT !.platforms = ps, !.ajvErrors = n] :
     ps \in PlatformLists, n \in 0..MaxAjvErrors}

ContentDocs ==
  {[BaseDoc EXCEPT !.content = c, !.title = t, !.platforms = ps] :
     c \in Contents, t \in TitleValues,
     ps \in {<<>>} \cup {<<e>> : e \in {w \in WindsurfEntries :
                                          Val(w.config).characterLimit = Undefined}}}

\* Scenario A with other ids, versions, titles and bodies: one platform,
\* claude-code, with compatible: true and nothing else
ScenarioDocs ==
  {[BaseDoc EXCEPT !.id = i, !.version = v, !.content = c, !.title = t,
                   !.platforms = <<Entry("claude-code", [NoConfig EXCEPT !.compatible = Some(TRUE)])>>] :
     i \in IdStrings, v \in Versions, c \in Contents, t \in {Undefined, Some([length |-> MaxTitleLen])}}

SchemaInputs == RelationDocs \cup FormatDocs \cup PlatformDocs \cup ContentDocs \cup ScenarioDocs

----------------------------------------------------------------------------
(* A single call of validateSchema on a new SchemaValidator *)

\* this.results as the CompatibilityChecker constructor leaves it
NewResults ==
  [platforms |-> EmptyMap,
   schemas |-> EmptyMap,
   summary |-> [total |-> Some(0), compatible |-> Some(0), incompatible |-> Some(0),
                errors |-> Some(<<>>),
                schemas |-> Undefined, platforms |-> Undefined, issues |-> Undefined]]

Idle ==
  /\ dependencies = EmptyMap
  /\ pc = "idle"
  /\ filePaths = <<>>
  /\ results = <<>>
  /\ allSchemas = EmptyMap
  /\ idx = 0
  /\ firstPass = <<>>
  /\ returned = Undefined
  /\ thrown = FALSE
  /\ calls = <<>>
  /\ schemas = <<>>
  /\ checker = NewResults
  /\ exitCode = Undefined
  /\ stack = <<>>
  /\ visitedSet = {}
  /\ recursionSet = {}
  /\ expanded = <<>>

InitSchema == Idle /\ arg \in {Some(schema) : schema \in SchemaInputs}

CallValidateSchema ==
  /\ pc = "idle"
  /\ LET r == validateSchema(dependencies, Val(arg), Undefined)
     IN /\ dependencies' = r.dependencies
        /\ thrown' = r.threw
        /\ returned' = IF r.threw THEN Undefined ELSE Some(r.result)
  /\ pc' = "done"
  /\ UNCHANGED <<filePaths, results, allSchemas, idx, firstPass, arg,
               calls, schemas, checker, exitCode>>
  /\ UNCHANGED search

NextSchema == CallValidateSchema

SpecSchema == InitSchema /\ [][NextSchema]_vars

----------------------------------------------------------------------------
(* validateFiles on a new SchemaValidator *)

File(doc) ==
  [readable |-> TRUE, content |-> [frontmatter |-> TRUE, yaml |-> TRUE, schema |-> doc]]

Unreadable == [File(BaseDoc) EXCEPT !.readable = FALSE]

NoFrontmatter == [File(BaseDoc) EXCEPT !.content.frontmatter = FALSE]

MalformedYaml == [File(BaseDoc) EXCEPT !.content.yaml = FALSE]

\* documents that differ in id and requires
GraphDocs ==
  {[BaseDoc EXCEPT !.id = i, !.requires = r] : i \in Ids, r \in SeqsUpTo(Ids, 1)}
    \cup {[BaseDoc EXCEPT !.requires = r] : r \in [1..2 -> {<<"b">>, <<"c">>}]}

\* documents that differ in suggests and supersedes
SoftDocs ==
  {[BaseDoc EXCEPT !.suggests = g, !.supersedes = p] :
     g \in SeqsUpTo({<<"b">>, <<"c">>}, 1), p \in SeqsUpTo({<<"b">>, <<"c">>}, 1)}

\* documents with first-pass errors or warnings of their own
FlawedDocs ==
  {[BaseDoc EXCEPT !.id = <<"b">>, !.ajvErrors = 1],
   [BaseDoc EXCEPT !.id = <<"b">>, !.content = [length |-> 0, hasHash |-> FALSE, hasFence |-> FALSE]],
   [BaseDoc EXCEPT !.requires = <<<<"b">>>>, !.conflicts = <<<<"b">>>>],
   [BaseDoc EXCEPT !.id = <<"b">>, !.requires = <<<<"a">>>>,
                   !.platforms = <<[name |-> "cursor", config |-> Null]>>],
   [BaseDoc EXCEPT !.requires = <<<<"c">>>>, !.suggests = <<<<"c">>>>,
                   !.content = [length |-> 0, hasHash |-> FALSE, hasFence |-> FALSE]]}

Files ==
  {Unreadable, NoFrontmatter, MalformedYaml}
    \cup {File(d) : d \in GraphDocs \cup SoftDocs \cup FlawedDocs}

Init == Idle /\ arg = Undefined

CallValidateFiles ==
  /\ pc = "idle"
  /\ \E paths \in SeqsUpTo(Files, MaxFiles) : filePaths' = paths
  /\ results' = <<>>
  /\ allSchemas' = EmptyMap
  /\ pc' = "first"
  /\ UNCHANGED <<dependencies, idx, firstPass, returned, arg, thrown,
               calls, schemas, checker, exitCode>>
  /\ UNCHANGED search

\* one iteration of the first loop
FirstPassStep ==
  /\ pc = "first"
  /\ Len(results) < Len(filePaths)
  /\ LET filePath == filePaths[Len(results) + 1]
         r == validateFile(dependencies, filePath)
         result == r.result
     IN IF r.threw
        THEN /\ thrown' = TRUE
             /\ pc' = "crashed"
             /\ UNCHANGED <<dependencies, results, allSchemas>>
        ELSE /\ dependencies' = r.dependencies
             /\ results' = Append(results, result)
             /\ allSchemas' =
                  IF result.valid /\ result.schema # Undefined
                  THEN MapSet(allSchemas, Val(result.schema).id,
                              [schema |-> Val(result.schema), filePath |-> filePath])
                  ELSE allSchemas
             /\ UNCHANGED <<pc, thrown>>
  /\ UNCHANGED <<filePaths, idx, firstPass, returned, arg,
               calls, schemas, checker, exitCode>>
  /\ UNCHANGED search

\* faulty variant: the second loop starts as soon as one file has a result
FirstPassEndEarly ==
  /\ pc = "first"
  /\ Len(results) >= 1 \/ Len(filePaths) = 0
  /\ pc' = "second"
  /\ idx' = 1
  /\ firstPass' = results
  /\ UNCHANGED <<dependencies, filePaths, results, allSchemas, returned, arg, thrown,
                 calls, schemas, checker, exitCode>>
  /\ UNCHANGED search

\* the first loop is over: the second starts
FirstPassEnd ==
  /\ pc = "first"
  /\ Len(results) = Len(filePaths)
  /\ pc' = "second"
  /\ idx' = 1
  /\ firstPass' = results
  /\ UNCHANGED <<dependencies, filePaths, results, allSchemas, returned, arg, thrown,
               calls, schemas, checker, exitCode>>
  /\ UNCHANGED search

\* faulty variant: the relationship issues are added and valid is left alone
secondPassKeepValid(result, all) ==
  IF result.valid /\ result.schema # Undefined
  THEN LET relationshipErrors == validateRelationships(Val(result.schema), all)
       IN IF Len(relationshipErrors) > 0
          THEN [result EXCEPT !.errors = result.errors \o relationshipErrors]
          ELSE result
  ELSE result

\* faulty variant: any relationship issue, a warning too, makes the result invalid
secondPassStrict(result, all) ==
  IF result.valid /\ result.schema # Undefined
  THEN LET relationshipErrors == validateRelationships(Val(result.schema), all)
       IN IF Len(relationshipErrors) > 0
          THEN [result EXCEPT !.errors = result.errors \o relationshipErrors,
                              !.valid = FALSE]
          ELSE result
  ELSE result

\* the body of the second loop for one result
secondPass(result, all) ==
  IF result.valid /\ result.schema # Undefined
  THEN LET relationshipErrors == validateRelationships(Val(result.schema), all)
       IN IF Len(relationshipErrors) > 0
          THEN [result EXCEPT
                  !.errors = result.errors \o relationshipErrors,
                  !.valid = \A i \in 1..Len(relationshipErrors) :
                              relationshipErrors[i].severity # "error"]
          ELSE result
  ELSE result

\* one iteration of the second loop
SecondPassStep ==
  /\ pc = "second"
  /\ idx <= Len(results)
  /\ results' = [results EXCEPT ![idx] = secondPass(results[idx], allSchemas)]
  /\ idx' = idx + 1
  /\ UNCHANGED <<dependencies, pc, filePaths, allSchemas, firstPass, returned, arg, thrown,
               calls, schemas, checker, exitCode>>
  /\ UNCHANGED search

Return ==
  /\ pc = "second"
  /\ idx > Len(results)
  /\ returned' = Some([results |-> results, summary |-> generateSummary(results)])
  /\ pc' = "done"
  /\ UNCHANGED <<dependencies, filePaths, results, allSchemas, idx, firstPass, arg, thrown,
               calls, schemas, checker, exitCode>>
  /\ UNCHANGED search

Next ==
  \/ CallValidateFiles
  \/ FirstPassStep
  \/ FirstPassEnd
  \/ SecondPassStep
  \/ Return

Spec == Init /\ [][Next]_vars

----------------------------------------------------------------------------
(* CompatibilityChecker *)

Issue(type, severity, message, schemaId) ==
  [type |-> type, severity |-> severity, message |-> message, schema |-> schemaId]

\* schema: schema.id
Of(schema) == Some(schema.id)

CheckerSizeLimit == 6000

CheckerOverhead == 200

estimateContentSize(schema) ==
  LengthOrZero(schema.title) + LengthOrZero(schema.description)
    + schema.content.length + CheckerOverhead

validateClaudeFeatures(config, schema) ==
  (IF config.memory = Undefined
   THEN <<Issue("missing_feature", "warning", "Memory configuration not specified", Of(schema))>>
   ELSE <<>>)
  \o (IF TruthyBool(config.command) /\ ~TruthyStr(config.namespace)
      THEN <<Issue("incomplete_config", "warning", "Command enabled but namespace not specified", Of(schema))>>
      ELSE <<>>)
  \o (IF TruthyBool(config.mcpIntegration) /\ config.allowedTools = Undefined
      THEN <<Issue("incomplete_config", "info", "MCP integration enabled but no tools specified", Of(schema))>>
      ELSE <<>>)

\* the loop over config.globs: one issue per glob that is an empty string
invalidGlobs(config, schema) ==
  IF config.globs = Undefined THEN <<>>
  ELSE LET bad == Filter(Val(config.globs), {""})
       IN [i \in 1..Len(bad) |-> Issue("invalid_config", "error", "Invalid glob pattern", Of(schema))]

CursorPriorities == {"high", "medium", "low"}

validateCursorFeatures(config, schema) ==
  (IF /\ config.activation = Some("auto-attached")
      /\ (config.globs = Undefined \/ Len(Val(config.globs)) = 0)
   THEN <<Issue("missing_requirement", "error", "Auto-attached activation requires globs configuration", Of(schema))>>
   ELSE <<>>)
  \o invalidGlobs(config, schema)
  \o (IF /\ TruthyJs(config.priority)
         /\ ~(~IsNum(Val(config.priority)) /\ Val(config.priority).str \in CursorPriorities)
      THEN <<Issue("invalid_config", "error", "Invalid priority", Of(schema))>>
      ELSE <<>>)

WindsurfModes == {"global", "workspace"}

\* /^[a-zA-Z][a-zA-Z0-9-]*$/.test(xmlTag)
IsXmlTag(tag) ==
  /\ Len(tag) >= 1
  /\ tag[1] \in Lower \cup Upper
  /\ \A i \in 2..Len(tag) : tag[i] \in IdentChars

validateWindsurfFeatures(config, schema) ==
  (IF estimateContentSize(schema) > CheckerSizeLimit
   THEN <<Issue("size_warning", "warning", "Content may exceed Windsurf limit", Of(schema))>>
   ELSE <<>>)
  \o (IF TruthyStr(config.mode) /\ Val(config.mode) \notin WindsurfModes
      THEN <<Issue("invalid_config", "error", "Invalid mode", Of(schema))>>
      ELSE <<>>)
  \o (IF TruthySeq(config.xmlTag) /\ ~IsXmlTag(Val(config.xmlTag))
      THEN <<Issue("invalid_config", "error", "Invalid XML tag", Of(schema))>>
      ELSE <<>>)

validReviewTypes == {"security", "performance", "code-quality", "style", "general"}

CopilotScopes == {"repository", "organization"}

validateCopilotFeatures(config, schema) ==
  (IF /\ TruthyJs(config.priority)
      /\ \/ JsLess(Val(config.priority), MinPriority)
         \/ JsGreater(Val(config.priority), MaxPriority)
   THEN <<Issue("invalid_config", "error", "Priority must be between 1-10", Of(schema))>>
   ELSE <<>>)
  \o (IF TruthyStr(config.reviewType) /\ Val(config.reviewType) \notin validReviewTypes
      THEN <<Issue("invalid_config", "error", "Invalid review type", Of(schema))>>
      ELSE <<>>)
  \o (IF TruthyStr(config.scope) /\ Val(config.scope) \notin CopilotScopes
      THEN <<Issue("invalid_config", "error", "Invalid scope", Of(schema))>>
      ELSE <<>>)

NamedKeys ==
  {"compatible", "memory", "command", "namespace", "mcpIntegration", "allowedTools",
   "activation", "globs", "priority", "characterLimit", "mode", "xmlTag",
   "reviewType", "scope"}

\* Object.keys(config).length
KeyCount(config) == Cardinality({k \in NamedKeys : config[k] # Undefined}) + config.others

validateGenericFeatures(config, schema) ==
  IF KeyCount(config) = 1 /\ config.compatible = Some(TRUE)
  THEN <<Issue("minimal_config", "info", "Platform has minimal configuration (compatible only)", Of(schema))>>
  ELSE <<>>

validatePlatformFeatures(platform, config, schema) ==
  CASE platform = "claude-code" -> validateClaudeFeatures(config, schema)
    [] platform = "cursor" -> validateCursorFeatures(config, schema)
    [] platform = "windsurf" -> validateWindsurfFeatures(config, schema)
    [] platform = "github-copilot" -> validateCopilotFeatures(config, schema)
    [] OTHER -> validateGenericFeatures(config, schema)

checkCrossPlatformIssues(schema) ==
  LET cursorConfig == PlatformConfig(schema, "cursor")
  IN (IF OptCompatible(schema, "windsurf") /\ estimateContentSize(schema) > CheckerSizeLimit
      THEN <<Issue("cross_platform_issue", "warning", "Content may be truncated on Windsurf due to character limit", Undefined)>>
      ELSE <<>>)
     \o (IF /\ cursorConfig # Undefined
            /\ Val(cursorConfig).activation = Some("always")
            /\ Val(cursorConfig).globs # Undefined
         THEN <<Issue("cross_platform_issue", "warning", "Always activation with globs may cause conflicts", Undefined)>>
         ELSE <<>>)

\* Object.keys(schema.platforms || {}).length
totalPlatforms(schema) == Len(schema.platforms)

\* faulty variant: the counter is incremented for every declared platform
compatiblePlatformsAll(schema) == Len(schema.platforms)

\* the entries the loop counts: config.compatible === true
compatiblePlatforms(schema) ==
  Cardinality({i \in 1..Len(schema.platforms) :
                 Val(schema.platforms[i].config).compatible = Some(TRUE)})

Percent == 100

\* Math.round((n / d) * 100), d > 0.  The quotient and the product are IEEE
\* doubles, so at an exact tie (x.5) the product may have been rounded to just
\* below the tie (23 / 40 * 100 is 57.49999999999999): both neighbours are
\* possible there; elsewhere the result is the nearest integer.
RoundedPercent(n, d) ==
  LET q == (Percent * n) \div d
      r == (Percent * n) % d
  IN IF 2 * r < d THEN {q}
     ELSE IF 2 * r > d THEN {q + 1}
     ELSE {q, q + 1}

Scores(schema) ==
  IF totalPlatforms(schema) > 0
  THEN RoundedPercent(compatiblePlatforms(schema), totalPlatforms(schema))
  ELSE {0}

\* the result object, given the value Math.round produced
checkSchemaCompatibility(schema, score) ==
  LET names == {schema.platforms[i].name : i \in 1..Len(schema.platforms)}
      config(name) == Val(PlatformConfig(schema, name))
  IN [id |-> schema.id,
      platforms |->
        [name \in names |->
           [compatible |-> config(name).compatible = Some(TRUE),
            issues |-> IF config(name).compatible = Some(TRUE)
                       THEN validatePlatformFeatures(name, config(name), schema)
                       ELSE <<>>]],
      issues |-> checkCrossPlatformIssues(schema),
      score |-> score]

----------------------------------------------------------------------------
(* A single call of checkSchemaCompatibility *)

MaxDeclared == 201

MaxFullDeclared == 8

\* a document declaring total platforms, the first compatible of them with
\* compatible: true and the others with compatible: false
CountedDoc(compatible, total) ==
  [BaseDoc EXCEPT !.platforms =
     [i \in 1..total |->
        Entry("platform-" \o ToString(i),
              [NoConfig EXCEPT !.compatible = Some(i <= compatible)])]]

CountedDocs ==
  {CountedDoc(c, t) : c \in 0..MaxFullDeclared, t \in 0..MaxFullDeclared}
    \cup {CountedDoc(t - k, t) : k \in 0..2, t \in 2..MaxDeclared}
    \cup {CountedDoc(k, t) : k \in 0..1, t \in 1..MaxDeclared}

ScoreInputs ==
  CountedDocs
    \cup {d \in PlatformDocs \cup ContentDocs : ~HasNull(d.platforms) /\ d.ajvErrors = 0}

InitScore == Idle /\ arg \in {Some(schema) : schema \in ScoreInputs}

CallCheckSchemaCompatibility ==
  /\ pc = "idle"
  /\ \E score \in Scores(Val(arg)) :
       returned' = Some(checkSchemaCompatibility(Val(arg), score))
  /\ pc' = "done"
  /\ UNCHANGED <<dependencies, filePaths, results, allSchemas, idx, firstPass, arg, thrown,
               calls, schemas, checker, exitCode>>
  /\ UNCHANGED search

NextScore == CallCheckSchemaCompatibility

SpecScore == InitScore /\ [][NextScore]_vars

----------------------------------------------------------------------------
(* Vocabulary of the properties *)

\* what validateFiles returned
Final == Val(returned).results

Done == pc = "done" /\ returned # Undefined

\* a single call of validateSchema returned Result for the document Schema
Validated == pc = "done" /\ arg # Undefined /\ returned # Undefined

Schema == Val(arg)

Result == Val(returned)

\* both lists of a result, errors first
Issues(r) == r.errors \o WarningsOf(r)

IssuesOfType(r, type) ==
  Filter(Issues(r), {e \in Elems(Issues(r)) : e.type = type})

\* the document of the i-th file of the batch, when the file holds one
Parses(file) == file.readable /\ file.content.frontmatter /\ file.content.yaml

DocOf(file) == file.content.schema

\* the four ways a file fails before or while it is validated
Fails(file) == ~Parses(file) \/ HasNull(DocOf(file).platforms)

\* the requires graph of the batch
BatchIds == {DocOf(filePaths[i]).id : i \in {j \in 1..Len(filePaths) : Parses(filePaths[j])}}

Requires(id) ==
  UNION {Elems(DocOf(filePaths[i]).requires) :
           i \in {j \in 1..Len(filePaths) :
                    Parses(filePaths[j]) /\ DocOf(filePaths[j]).id = id}}

RECURSIVE Closure(_)
Closure(S) ==
  LET more == S \cup UNION {Requires(id) : id \in S}
  IN IF more = S THEN S ELSE Closure(more)

OnCycle(id) == id \in Closure(Requires(id))

UniqueIds ==
  \A i, j \in 1..Len(filePaths) :
    (Parses(filePaths[i]) /\ Parses(filePaths[j])
       /\ DocOf(filePaths[i]).id = DocOf(filePaths[j]).id) => i = j

----------------------------------------------------------------------------
(* C1: in a batch whose requires edges form a cycle, whatever the order of *)
(* the files, every document on the cycle has exactly one                  *)
(* cyclic_dependency error in its result.  (The batches considered hold    *)
(* documents only, with distinct ids, none of which throws.)               *)
C1_EveryCycleMemberReports ==
  (Done /\ UniqueIds /\ \A i \in 1..Len(filePaths) : ~Fails(filePaths[i]))
    => \A i \in 1..Len(Final) :
         OnCycle(DocOf(filePaths[i]).id)
           => CountType(Final[i].errors, "cyclic_dependency") = 1

\* the two-document cycle, validated in the order a, b: a reports no cycle
C1_FirstOfCycleSilent ==
  /\ Done
  /\ Len(filePaths) = 2
  /\ ~Fails(filePaths[1]) /\ ~Fails(filePaths[2])
  /\ DocOf(filePaths[1]).id = <<"a">> /\ DocOf(filePaths[1]).requires = <<<<"b">>>>
  /\ DocOf(filePaths[2]).id = <<"b">> /\ DocOf(filePaths[2]).requires = <<<<"a">>>>
  /\ CountType(Final[1].errors, "cyclic_dependency") = 0
  /\ CountType(Final[2].errors, "cyclic_dependency") = 1

----------------------------------------------------------------------------
IsParseError(r) ==
  /\ ~r.valid
  /\ Len(r.errors) = 1
  /\ r.errors[1].type = "parse_error"
  /\ r.schema = Undefined

OneResultPerFile(rs) ==
  /\ Len(rs) = Len(filePaths)
  /\ \A i \in 1..Len(rs) :
       /\ rs[i].filePath = Some(filePaths[i])
       /\ Fails(filePaths[i]) => IsParseError(rs[i])
       /\ ~Fails(filePaths[i]) =>
            /\ rs[i].schema = Some(DocOf(filePaths[i]))
            /\ CountType(rs[i].errors, "parse_error") = 0

(* C2: validateFiles never throws and returns one result per file, in      *)
(* input order; a file that is unreadable, has no frontmatter, has         *)
(* malformed YAML or makes a rule throw gets valid = false and the single  *)
(* error parse_error, and every other file of the batch is validated.      *)
C2_OneResultPerFile ==
  /\ ~thrown
  /\ pc # "crashed"
  /\ pc = "second" => OneResultPerFile(results)
  /\ Done => OneResultPerFile(Final)

\* a batch whose first file fails and whose second is reported valid
C2_FailureThenValid ==
  /\ Done
  /\ Len(filePaths) = 2
  /\ Fails(filePaths[1]) /\ IsParseError(Final[1])
  /\ Final[2].valid

----------------------------------------------------------------------------
(* C3: the result of validateSchema is valid exactly when its errors list  *)
(* is empty, whatever its warnings are.                                    *)
C3_ValidIffNoErrors ==
  Validated
    => (Result.valid <=> Len(Result.errors) = 0)

\* a valid result that carries warnings
C3_ValidWithWarnings ==
  /\ Validated
  /\ Result.valid
  /\ Len(WarningsOf(Result)) > 1

----------------------------------------------------------------------------
FirstPassValidIds ==
  {Val(firstPass[i].schema).id : i \in {j \in 1..Len(firstPass) : firstPass[j].valid}}

Missing(list) == Filter(list, Elems(list) \ FirstPassValidIds)

\* the ids the issues of one type name, in order
Named(r, type) ==
  LET hits == IssuesOfType(r, type)
  IN [k \in 1..Len(hits) |-> hits[k].ids[1]]

SeverityOnly(r, type, severity) ==
  \A k \in 1..Len(Issues(r)) :
    Issues(r)[k].type = type => Issues(r)[k].severity = severity

(* C4: in the second pass, a document valid after the first pass gets one  *)
(* missing_dependency error per entry of requires that is not the id of a  *)
(* first-pass-valid document, and is valid afterwards exactly when there   *)
(* is none; one missing_suggestion (missing_superseded) warning per such   *)
(* entry of suggests (supersedes), which leaves valid alone; a document    *)
(* invalid after the first pass is left as it was.                         *)
C4_SecondPass ==
  Done =>
    \A i \in 1..Len(Final) :
      IF firstPass[i].valid
      THEN LET doc == Val(firstPass[i].schema)
           IN /\ Named(Final[i], "missing_dependency") = Missing(doc.requires)
              /\ Named(Final[i], "missing_suggestion") = Missing(doc.suggests)
              /\ Named(Final[i], "missing_superseded") = Missing(doc.supersedes)
              /\ SeverityOnly(Final[i], "missing_dependency", "error")
              /\ SeverityOnly(Final[i], "missing_suggestion", "warning")
              /\ SeverityOnly(Final[i], "missing_superseded", "warning")
              /\ Final[i].valid <=> Missing(doc.requires) = <<>>
      ELSE Final[i] = firstPass[i]

\* one document made invalid by a missing requirement, another kept valid
\* although the document it suggests is missing
C4_MissingBoth ==
  /\ Done
  /\ \E i, j \in 1..Len(Final) :
       /\ firstPass[i].valid /\ ~Final[i].valid
       /\ Len(Named(Final[i], "missing_dependency")) = 2
       /\ Final[j].valid
       /\ Len(Named(Final[j], "missing_suggestion")) = 1

----------------------------------------------------------------------------
Shared(doc) == Elems(doc.requires) \cap Elems(doc.conflicts)

(* C5: a document whose requires and conflicts share an id gets exactly    *)
(* one conflicting_relationships error, which names each shared id once    *)
(* and no other id; a document whose lists are disjoint gets none.         *)
C5_ConflictNamesIntersection ==
  Validated
    => LET hits == IssuesOfType(Result, "conflicting_relationships")
       IN IF Shared(Schema) = {}
          THEN hits = <<>>
          ELSE /\ Len(hits) = 1
               /\ hits[1].severity = "error"
               /\ Elems(hits[1].ids) = Shared(Schema)
               /\ Len(hits[1].ids) = Cardinality(Shared(Schema))

\* requires lists the shared id twice, the error names it once
C5_RepeatedIdNamedOnce ==
  /\ Validated
  /\ Schema.requires = <<<<"b">>, <<"b">>>>
  /\ Schema.conflicts = <<<<"c">>, <<"b">>>>
  /\ IssuesOfType(Result, "conflicting_relationships") # <<>>
  /\ IssuesOfType(Result, "conflicting_relationships")[1].ids = <<<<"b">>>>

----------------------------------------------------------------------------
Scored == pc = "done" /\ arg # Undefined /\ returned # Undefined

\* the platforms a document declares, and those declared compatible: true
Declared(schema) == Len(schema.platforms)

DeclaredCompatible(schema) ==
  Cardinality({i \in 1..Len(schema.platforms) :
                 Val(schema.platforms[i].config).compatible = Some(TRUE)})

AllCompatible(schema) ==
  \A i \in 1..Len(schema.platforms) :
    Val(schema.platforms[i].config).compatible = Some(TRUE)

(* C6: the score is between 0 and 100, and it is 100 exactly when every    *)
(* declared platform has compatible: true.                                 *)
C6_HundredIffAllCompatible ==
  Scored =>
    /\ 0 <= Result.score /\ Result.score <= 100
    /\ Result.score = 100 <=> AllCompatible(Schema)

(* C6 as amended: 0 <= score <= 100; the score is 0 when no platform is    *)
(* declared; it is 100 when at least one platform is declared and all are  *)
(* compatible; and when it is 100 at least one platform is declared and at *)
(* most one in 200 of them is not compatible.  Hence for 1 to 199 declared *)
(* platforms it is 100 exactly when all of them are compatible.            *)
C6_ScoreBounds ==
  Scored =>
    LET total == Declared(Schema)
        incompatible == total - DeclaredCompatible(Schema)
    IN /\ 0 <= Result.score /\ Result.score <= 100
       /\ total = 0 => Result.score = 0
       /\ (total > 0 /\ incompatible = 0) => Result.score = 100
       /\ Result.score = 100 => (total > 0 /\ 200 * incompatible <= total)
       /\ (0 < total /\ total < 200) => (Result.score = 100 <=> incompatible = 0)

\* 200 of 201 declared platforms are compatible and the score is 100
C6_RoundedUpToHundred ==
  /\ Scored
  /\ Declared(Schema) = 201
  /\ DeclaredCompatible(Schema) = 200
  /\ Result.score = 100

----------------------------------------------------------------------------
WindsurfCompatible(schema) ==
  \E i \in 1..Len(schema.platforms) :
    /\ schema.platforms[i].name = "windsurf"
    /\ Val(schema.platforms[i].config).compatible = Some(TRUE)

TitleLength(schema) == IF schema.title = Undefined THEN 0 ELSE Val(schema.title).length

(* C7: with a compatible windsurf entry the result carries a               *)
(* windsurf_size_warning exactly when content.length + title.length + 200  *)
(* exceeds 6000 (none at exactly 6000), and without such an entry it       *)
(* carries none.                                                           *)
C7_WindsurfSizeBoundary ==
  Validated =>
    LET size == Schema.content.length + TitleLength(Schema) + 200
        hits == IssuesOfType(Result, "windsurf_size_warning")
    IN IF WindsurfCompatible(Schema) /\ size > 6000
       THEN Len(hits) = 1 /\ hits[1].severity = "warning" /\ hits[1].num = size
       ELSE hits = <<>>

\* the smallest size that is warned about
C7_FirstSizeWarned ==
  /\ Validated
  /\ Schema.content.length + TitleLength(Schema) + 200 = 6001
  /\ TitleLength(Schema) > 0
  /\ IssuesOfType(Result, "windsurf_size_warning") # <<>>

----------------------------------------------------------------------------
CursorAutoAttached(schema) ==
  {i \in 1..Len(schema.platforms) :
     /\ schema.platforms[i].name = "cursor"
     /\ Val(schema.platforms[i].config).compatible = Some(TRUE)
     /\ Val(schema.platforms[i].config).activation = Some("auto-attached")}

(* C8: for a cursor entry with compatible: true and activation             *)
(* "auto-attached", the result carries an error about the missing globs    *)
(* exactly when globs is absent or an empty list.                          *)
C8_AutoAttachedNeedsGlobs ==
  Validated =>
    \A i \in CursorAutoAttached(Schema) :
      LET globs == Val(Schema.platforms[i].config).globs
          hits == IssuesOfType(Result, "missing_globs")
      IN IF globs = Undefined \/ globs = Some(<<>>)
         THEN Len(hits) = 1 /\ hits[1].severity = "error"
         ELSE hits = <<>>

\* globs: [] passes validatePlatformConfig without an error
C8_EmptyGlobsAccepted ==
  /\ Validated
  /\ \E i \in CursorAutoAttached(Schema) : Val(Schema.platforms[i].config).globs = Some(<<>>)
  /\ IssuesOfType(Result, "missing_globs") = <<>>

----------------------------------------------------------------------------
CopilotCompatible(schema) ==
  {i \in 1..Len(schema.platforms) :
     /\ schema.platforms[i].name = "github-copilot"
     /\ Val(schema.platforms[i].config).compatible = Some(TRUE)}

OutOfRange(priority) ==
  /\ priority # Undefined
  /\ IsNum(Val(priority))
  /\ (Val(priority).num < 1 \/ Val(priority).num > 10)

(* C9: for a github-copilot entry with compatible: true, the result        *)
(* carries an invalid_priority error exactly when priority is a number     *)
(* below 1 or above 10.                                                    *)
C9_PriorityRange ==
  Validated =>
    \A i \in CopilotCompatible(Schema) :
      LET hits == IssuesOfType(Result, "invalid_priority")
      IN IF OutOfRange(Val(Schema.platforms[i].config).priority)
         THEN Len(hits) = 1 /\ hits[1].severity = "error"
         ELSE hits = <<>>

\* priority: 0 passes validatePlatformConfig without an error
C9_ZeroPriorityAccepted ==
  /\ Validated
  /\ \E i \in CopilotCompatible(Schema) :
       Val(Schema.platforms[i].config).priority = Some(JsNum(0))
  /\ IssuesOfType(Result, "invalid_priority") = <<>>

----------------------------------------------------------------------------
PlatformIssuePaths(name) ==
  {"platforms." \o name \o field :
     field \in {".namespace", ".globs", ".characterLimit", ".priority"}}

(* C10: a platform entry whose compatible flag is false or absent          *)
(* contributes no error and no warning, whatever its other fields are.     *)
C10_IncompatibleSkipped ==
  Validated =>
    \A i \in 1..Len(Schema.platforms) :
      Val(Schema.platforms[i].config).compatible \in {Undefined, Some(FALSE)}
        => \A k \in 1..Len(Issues(Result)) :
             Issues(Result)[k].path \notin PlatformIssuePaths(Schema.platforms[i].name)

\* an entry that would break the cursor rule, were it compatible
C10_SkippedCursorEntry ==
  /\ Validated
  /\ \E i \in 1..Len(Schema.platforms) :
       /\ Schema.platforms[i].name = "cursor"
       /\ Val(Schema.platforms[i].config).compatible = Undefined
       /\ Val(Schema.platforms[i].config).activation = Some("auto-attached")
       /\ Val(Schema.platforms[i].config).globs = Undefined
  /\ Issues(Result) = <<>>

----------------------------------------------------------------------------
(* validateSchema called twice in a row with one document, on an instance  *)
(* that may have validated other documents before                          *)

MaxPrior == 2

\* the documents validated before
PriorDocs ==
  {[BaseDoc EXCEPT !.id = i, !.requires = r] : i \in Ids, r \in SeqsUpTo(Ids, 1)}

RepeatedDocs == GraphDocs \cup FlawedDocs

InitTwice == Idle /\ arg \in {Some(schema) : schema \in RepeatedDocs}

\* one call validateSchema(schema), recorded with what it gave and the map it left
Validate(schema) ==
  LET r == validateSchema(dependencies, schema, Undefined)
  IN /\ dependencies' = r.dependencies
     /\ calls' = Append(calls, [schema |-> schema, threw |-> r.threw,
                                result |-> r.result, dependencies |-> r.dependencies])

ValidateOther ==
  /\ pc = "idle"
  /\ Len(calls) < MaxPrior
  /\ \E schema \in PriorDocs : Validate(schema)
  /\ UNCHANGED <<pc, filePaths, results, allSchemas, idx, firstPass, returned, arg, thrown,
                 schemas, checker, exitCode>>
  /\ UNCHANGED search

ValidateFirst ==
  /\ pc = "idle"
  /\ Validate(Val(arg))
  /\ pc' = "once"
  /\ UNCHANGED <<filePaths, results, allSchemas, idx, firstPass, returned, arg, thrown,
                 schemas, checker, exitCode>>
  /\ UNCHANGED search

ValidateAgain ==
  /\ pc = "once"
  /\ Validate(Val(arg))
  /\ pc' = "twice"
  /\ UNCHANGED <<filePaths, results, allSchemas, idx, firstPass, returned, arg, thrown,
                 schemas, checker, exitCode>>
  /\ UNCHANGED search

NextTwice == ValidateOther \/ ValidateFirst \/ ValidateAgain

SpecTwice == InitTwice /\ [][NextTwice]_vars

\* the two calls on the repeated document
FirstCall == calls[Len(calls) - 1]

SecondCall == calls[Len(calls)]

(* C11: the second of two validations in a row of one document gives what  *)
(* the first gave (the same valid flag, errors and warnings, or the same   *)
(* exception), and leaves the dependencies map as the first left it.       *)
C11_SecondValidationSame ==
  pc = "twice" =>
    /\ SecondCall.threw = FirstCall.threw
    /\ SecondCall.result.valid = FirstCall.result.valid
    /\ SecondCall.result.errors = FirstCall.result.errors
    /\ SecondCall.result.warnings = FirstCall.result.warnings
    /\ SecondCall.dependencies = FirstCall.dependencies
    /\ dependencies = FirstCall.dependencies

\* a document that closes a cycle with an earlier one reports it both times
C11_CycleReportedTwice ==
  /\ pc = "twice"
  /\ Len(calls) = 3
  /\ calls[1].schema.id # Schema.id
  /\ CountType(FirstCall.result.errors, "cyclic_dependency") = 1
  /\ CountType(SecondCall.result.errors, "cyclic_dependency") = 1

----------------------------------------------------------------------------
(* CompatibilityChecker: checkCompatibility *)

RECURSIVE Concat(_)
Concat(lists) == IF lists = <<>> THEN <<>> ELSE Head(lists) \o Concat(Tail(lists))

\* Object.keys(schema.platforms)
PlatformNames(schema) == [i \in 1..Len(schema.platforms) |-> schema.platforms[i].name]

\* Array.from(new Set of every platform key), in order of first occurrence
extractPlatforms(list) ==
  Dedup(Concat([i \in 1..Len(list) |-> PlatformNames(list[i].schema)]))

\* schemas.filter(({schema}) => schema.platforms?.[platform]?.compatible === true)
CompatibleWith(platform, list) ==
  LET keep == {i \in 1..Len(list) :
                 LET c == PlatformConfig(list[i].schema, platform)
                 IN c # Undefined /\ Val(c).compatible = Some(TRUE)}
      RECURSIVE from(_)
      from(i) == IF i > Len(list) THEN <<>>
                 ELSE (IF i \in keep THEN <<list[i]>> ELSE <<>>) \o from(i + 1)
  IN from(1)

analyzePlatformFeatures(platform, list) ==
  LET configs == [i \in 1..Len(list) |-> Val(PlatformConfig(list[i].schema, platform))]
      some(field) == \E i \in 1..Len(configs) : TruthyBool(configs[i][field])
      features == [supported |-> <<>>, unsupported |-> <<>>, limitations |-> <<>>,
                   used |-> Undefined]
  IN CASE platform = "claude-code" ->
            [features EXCEPT
               !.supported = <<"memory", "commands", "mcp-integration", "namespaces">>,
               !.used = IF some("memory") /\ some("command") THEN Some(<<"memory", "commands">>)
                        ELSE IF some("memory") THEN Some(<<"memory">>)
                        ELSE IF some("command") THEN Some(<<"commands">>)
                        ELSE Undefined]
       [] platform = "cursor" ->
            [features EXCEPT
               !.supported = <<"auto-attachment", "file-patterns", "priority-system">>,
               !.limitations = <<"vs-code-dependency">>]
       [] platform = "windsurf" ->
            [features EXCEPT
               !.supported = <<"workspace-context", "xml-formatting">>,
               !.limitations = <<"6k-character-limit">>]
       [] platform = "github-copilot" ->
            [features EXCEPT
               !.supported = <<"review-integration", "priority-system", "repository-scope">>,
               !.limitations = <<"github-dependency">>]
       [] OTHER -> features

checkPlatformCompatibility(platform, list) ==
  LET compatibleSchemas == CompatibleWith(platform, list)
  IN [platform |-> platform,
      total |-> Len(list),
      compatible |-> Len(compatibleSchemas),
      incompatible |-> Len(list) - Len(compatibleSchemas),
      issues |-> Concat([i \in 1..Len(compatibleSchemas) |->
                           validatePlatformFeatures(
                             platform,
                             Val(PlatformConfig(compatibleSchemas[i].schema, platform)),
                             compatibleSchemas[i].schema)]),
      features |-> analyzePlatformFeatures(platform, compatibleSchemas)]

\* the loop over platforms: this.results.platforms[platform] = ...
checkPlatforms(list) ==
  [platform \in Elems(extractPlatforms(list)) |-> checkPlatformCompatibility(platform, list)]

HighScore == 80

MediumScore == 50

Severities == {"error", "warning", "info"}

\* the rates Math.round can give for the platforms of this.results.platforms:
\* one function per choice of the platforms whose tie is rounded up
Rates(platforms) ==
  LET rate(p) == IF platforms[p].total > 0
                 THEN RoundedPercent(platforms[p].compatible, platforms[p].total)
                 ELSE {0}
      low(p) == CHOOSE r \in rate(p) : \A other \in rate(p) : r <= other
      high(p) == CHOOSE r \in rate(p) : \A other \in rate(p) : r >= other
      ties == {p \in DOMAIN platforms : low(p) # high(p)}
  IN {[p \in DOMAIN platforms |-> IF p \in up THEN high(p) ELSE low(p)] : up \in SUBSET ties}

\* faulty variant: a score of exactly 50 falls in no tier
checkerSummaryOpenTier(platforms, scored, rates) ==
  [total |-> Undefined, compatible |-> Undefined, incompatible |-> Undefined,
   errors |-> Undefined,
   schemas |-> Some(
     [total |-> Cardinality(DOMAIN scored),
      highCompatibility |->
        Cardinality({id \in DOMAIN scored : scored[id].score >= HighScore}),
      mediumCompatibility |->
        Cardinality({id \in DOMAIN scored :
                       scored[id].score > MediumScore /\ scored[id].score < HighScore}),
      lowCompatibility |->
        Cardinality({id \in DOMAIN scored : scored[id].score < MediumScore})]),
   platforms |-> Some([total |-> Cardinality(DOMAIN platforms), details |-> rates]),
   issues |-> Some([total |-> 0, byType |-> EmptyMap,
                    bySeverity |-> [v \in Severities |-> 0]])]

\* CompatibilityChecker.generateSummary: the object that replaces
\* this.results.summary, given the rates Math.round produced
checkerSummary(platforms, scored, rates) ==
  LET issueAt == UNION {{<<p, j>> : j \in 1..Len(platforms[p].issues)} :
                          p \in DOMAIN platforms}
      issue(at) == platforms[at[1]].issues[at[2]]
      types == {issue(at).type : at \in issueAt}
  IN [total |-> Undefined, compatible |-> Undefined, incompatible |-> Undefined,
      errors |-> Undefined,
      schemas |-> Some(
        [total |-> Cardinality(DOMAIN scored),
         highCompatibility |->
           Cardinality({id \in DOMAIN scored : scored[id].score >= HighScore}),
         mediumCompatibility |->
           Cardinality({id \in DOMAIN scored :
                          scored[id].score >= MediumScore /\ scored[id].score < HighScore}),
         lowCompatibility |->
           Cardinality({id \in DOMAIN scored : scored[id].score < MediumScore})]),
      platforms |-> Some(
        [total |-> Cardinality(DOMAIN platforms),
         details |-> [p \in DOMAIN platforms |->
                        [compatible |-> platforms[p].compatible,
                         compatibility_rate |-> rates[p],
                         issues |-> Len(platforms[p].issues)]]]),
      issues |-> Some(
        [total |-> Cardinality(issueAt),
         byType |-> [t \in types |-> Cardinality({at \in issueAt : issue(at).type = t})],
         bySeverity |-> [v \in Severities |->
                           Cardinality({at \in issueAt : issue(at).severity = v})]])]

----------------------------------------------------------------------------
(* The two command lines: main of schema-validator.js and main of          *)
(* compatibility-checker.js, from the point where the target exists and    *)
(* its schema files are listed                                             *)

MaxMainFiles == 2

\* the document with another id
WithId(doc, id) == [doc EXCEPT !.id = id]

CursorWith(activation, globs) ==
  <<Entry("cursor", [NoConfig EXCEPT !.compatible = Some(TRUE),
                                     !.activation = activation, !.globs = globs])>>

MainDocs ==
  {BaseDoc,
   [BaseDoc EXCEPT !.id = <<"A">>],
   [BaseDoc EXCEPT !.ajvErrors = 1],
   [BaseDoc EXCEPT !.platforms = <<[name |-> "cursor", config |-> Null]>>],
   [BaseDoc EXCEPT !.requires = <<<<"c">>>>, !.suggests = <<<<"b">>>>],
   [BaseDoc EXCEPT !.id = <<"b">>, !.requires = <<<<"a">>>>],
   [BaseDoc EXCEPT !.id = <<"b">>, !.platforms = CursorWith(Undefined, Some(<<"">>))],
   [BaseDoc EXCEPT !.id = <<"c">>,
                   !.platforms = CursorWith(Some("auto-attached"), Some(<<>>))],
   [BaseDoc EXCEPT !.platforms =
      <<Entry("claude-code", [NoConfig EXCEPT !.compatible = Some(TRUE)]),
        Entry("windsurf", [NoConfig EXCEPT !.compatible = Some(TRUE)])>>],
   WithId(CountedDoc(0, 1), <<"b">>),
   WithId(CountedDoc(1, 2), <<"b">>),
   WithId(CountedDoc(4, 5), <<"c">>),
   WithId(CountedDoc(15, 19), <<"c">>)}

MainFiles ==
  {Unreadable, NoFrontmatter, MalformedYaml} \cup {File(d) : d \in MainDocs}

\* schema-validator.js main: the files are listed; none: exit 1, else
\* validateFiles is entered
MainValidator ==
  /\ pc = "idle"
  /\ arg' = Some("schema-validator")
  /\ \E paths \in SeqsUpTo(MainFiles, MaxMainFiles) :
       /\ filePaths' = paths
       /\ IF Len(paths) = 0
          THEN pc' = "exited" /\ exitCode' = Some(1)
          ELSE pc' = "first" /\ exitCode' = exitCode
  /\ results' = <<>>
  /\ allSchemas' = EmptyMap
  /\ UNCHANGED <<dependencies, idx, firstPass, returned, thrown, calls, schemas, checker>>
  /\ UNCHANGED search

\* process.exit(results.summary.invalid > 0 ? 1 : 0)
ExitValidator ==
  /\ pc = "done"
  /\ exitCode' = Some(IF Val(returned).summary.invalid > 0 THEN 1 ELSE 0)
  /\ pc' = "exited"
  /\ UNCHANGED <<dependencies, filePaths, results, allSchemas, idx, firstPass, returned, arg,
                 thrown, calls, schemas, checker>>
  /\ UNCHANGED search

\* compatibility-checker.js main: checkCompatibility is entered
MainChecker ==
  /\ pc = "idle"
  /\ arg' = Some("compatibility-checker")
  /\ \E paths \in SeqsUpTo(MainFiles, MaxMainFiles) : filePaths' = paths
  /\ schemas' = <<>>
  /\ idx' = 0
  /\ pc' = "parse"
  /\ UNCHANGED <<dependencies, results, allSchemas, firstPass, returned, thrown, calls,
                 checker, exitCode>>
  /\ UNCHANGED search

\* this.results.summary.errors.push({type, filePath, message})
PushError(type, filePath) ==
  [checker EXCEPT !.summary.errors =
     Some(Append(Val(@), [type |-> type, filePath |-> filePath]))]

\* one iteration of the loop "Parse all schemas"; calls records what the
\* validation of the file gave
ParseStep ==
  /\ pc = "parse"
  /\ idx < Len(filePaths)
  /\ LET filePath == filePaths[idx + 1]
         parsed == parseSchema(filePath.content)
         validation == validateSchema(dependencies, Val(parsed.schema), Some(filePath))
     IN IF ~filePath.readable \/ parsed.threw
        THEN /\ checker' = PushError("parse_error", filePath)
             /\ calls' = Append(calls, [schema |-> Undefined, threw |-> TRUE,
                                        result |-> NoResult, dependencies |-> dependencies])
             /\ UNCHANGED <<dependencies, schemas>>
        ELSE /\ dependencies' = validation.dependencies
             /\ calls' = Append(calls, [schema |-> parsed.schema, threw |-> validation.threw,
                                        result |-> validation.result,
                                        dependencies |-> validation.dependencies])
             /\ IF validation.threw
                THEN checker' = PushError("parse_error", filePath) /\ schemas' = schemas
                ELSE IF validation.result.valid
                THEN /\ schemas' = Append(schemas, [schema |-> Val(parsed.schema),
                                                    filePath |-> filePath])
                     /\ checker' = checker
                ELSE checker' = PushError("invalid_schema", filePath) /\ schemas' = schemas
  /\ idx' = idx + 1
  /\ UNCHANGED <<pc, filePaths, results, allSchemas, firstPass, returned, arg, thrown, exitCode>>
  /\ UNCHANGED search

\* the loop "Check platform compatibility"
CheckPlatforms ==
  /\ pc = "parse"
  /\ idx = Len(filePaths)
  /\ checker' = [checker EXCEPT !.platforms = checkPlatforms(schemas)]
  /\ idx' = 0
  /\ pc' = "schemas"
  /\ UNCHANGED <<dependencies, filePaths, results, allSchemas, firstPass, returned, arg, thrown,
                 calls, schemas, exitCode>>
  /\ UNCHANGED search

\* one iteration of the loop "Check individual schema compatibility"
CheckSchemaStep ==
  /\ pc = "schemas"
  /\ idx < Len(schemas)
  /\ LET schema == schemas[idx + 1].schema
     IN \E score \in Scores(schema) :
          checker' = [checker EXCEPT
                        !.schemas = MapSet(@, schema.id, checkSchemaCompatibility(schema, score))]
  /\ idx' = idx + 1
  /\ UNCHANGED <<dependencies, pc, filePaths, results, allSchemas, firstPass, returned, arg,
                 thrown, calls, schemas, exitCode>>
  /\ UNCHANGED search

\* this.generateSummary(); return this.results
SummariseAndReturn ==
  /\ pc = "schemas"
  /\ idx = Len(schemas)
  /\ \E rates \in Rates(checker.platforms) :
       /\ checker' = [checker EXCEPT
                         !.summary = checkerSummary(checker.platforms, checker.schemas, rates)]
       /\ returned' = Some(checker')
  /\ pc' = "checked"
  /\ UNCHANGED <<dependencies, filePaths, results, allSchemas, idx, firstPass, arg, thrown,
                 calls, schemas, exitCode>>
  /\ UNCHANGED search

\* process.exit(results.summary.issues.bySeverity.error > 0 ? 1 : 0)
ExitChecker ==
  /\ pc = "checked"
  /\ exitCode' = Some(IF Val(Val(returned).summary.issues).bySeverity["error"] > 0
                      THEN 1 ELSE 0)
  /\ pc' = "exited"
  /\ UNCHANGED <<dependencies, filePaths, results, allSchemas, idx, firstPass, returned, arg,
                 thrown, calls, schemas, checker>>
  /\ UNCHANGED search

NextMain ==
  \/ MainValidator
  \/ FirstPassStep
  \/ FirstPassEnd
  \/ SecondPassStep
  \/ Return
  \/ ExitValidator
  \/ MainChecker
  \/ ParseStep
  \/ CheckPlatforms
  \/ CheckSchemaStep
  \/ SummariseAndReturn
  \/ ExitChecker

SpecMain == Init /\ [][NextMain]_vars

----------------------------------------------------------------------------
(* Vocabulary of the command-line properties *)

RanChecker == arg = Some("compatibility-checker")

RanValidator == arg = Some("schema-validator")

\* checkCompatibility has returned
Checked == RanChecker /\ pc \in {"checked", "exited"}

\* the files of the run whose validation threw / gave an invalid result
Unparsed == {i \in 1..Len(calls) : calls[i].threw}

Invalid == {i \in 1..Len(calls) : ~calls[i].threw /\ ~calls[i].result.valid}

Analysed == {i \in 1..Len(calls) : ~calls[i].threw /\ calls[i].result.valid}

\* the entries of a summary.errors list for one file and one type
Entries(errors, type, filePath) ==
  {k \in 1..Len(errors) : errors[k].type = type /\ errors[k].filePath = filePath}

(* C12: what checkCompatibility returns has a summary.errors list with one *)
(* parse_error entry per file that could not be read or parsed and one     *)
(* invalid_schema entry per document that failed validation; those         *)
(* documents are in neither results.schemas nor a platform count.          *)
C12_FailuresListed ==
  Checked =>
    LET errors == Val(returned).summary.errors
    IN /\ errors # Undefined
       /\ \A i \in 1..Len(filePaths) :
            /\ Cardinality(Entries(Val(errors), "parse_error", filePaths[i]))
                 = Cardinality({j \in Unparsed : filePaths[j] = filePaths[i]})
            /\ Cardinality(Entries(Val(errors), "invalid_schema", filePaths[i]))
                 = Cardinality({j \in Invalid : filePaths[j] = filePaths[i]})
       /\ DOMAIN Val(returned).schemas = {Val(calls[i].schema).id : i \in Analysed}
       /\ \A p \in DOMAIN Val(returned).platforms :
            Val(returned).platforms[p].total = Cardinality(Analysed)

\* a file failed, and the returned summary has no errors property
C12_ErrorsDropped ==
  /\ Checked
  /\ Unparsed # {}
  /\ Invalid # {}
  /\ Val(returned).summary.errors = Undefined

\* some document of the run has an issue of severity error
ValidatorFoundError ==
  \E i \in 1..Len(Final) : \E k \in 1..Len(Final[i].errors) :
    Final[i].errors[k].severity = "error"

ValidatorParseFailure ==
  \E i \in 1..Len(Final) : CountType(Final[i].errors, "parse_error") > 0

CheckerFoundError ==
  \/ \E i \in 1..Len(calls) : \E k \in 1..Len(calls[i].result.errors) :
        calls[i].result.errors[k].severity = "error"
  \/ \E p \in DOMAIN checker.platforms : \E k \in 1..Len(checker.platforms[p].issues) :
        checker.platforms[p].issues[k].severity = "error"

(* C14: with at least one schema file, each command line exits with 1 when *)
(* a document of the run has an error-severity validation or compatibility *)
(* issue, and with 0 when none has one (and every file could be parsed).   *)
C14_ExitCode ==
  (pc = "exited" /\ Len(filePaths) > 0) =>
    /\ RanValidator =>
         /\ ValidatorFoundError => exitCode = Some(1)
         /\ (~ValidatorFoundError /\ ~ValidatorParseFailure) => exitCode = Some(0)
    /\ RanChecker =>
         /\ CheckerFoundError => exitCode = Some(1)
         /\ (~CheckerFoundError /\ Unparsed = {}) => exitCode = Some(0)

\* the checker exits with 0 although a document failed validation with errors
C14_CheckerExitsZero ==
  /\ pc = "exited"
  /\ RanChecker
  /\ Len(filePaths) = 1
  /\ Invalid = {1}
  /\ CountType(calls[1].result.errors, "invalid_id") = 1
  /\ exitCode = Some(0)

\* the scores of the scored documents
ScoresIn(lo, hi) ==
  {id \in DOMAIN checker.schemas :
     lo <= checker.schemas[id].score /\ checker.schemas[id].score <= hi}

(* C19: in the summary of generateSummary every scored document is counted *)
(* in exactly one tier: high for a score of 80 or more, medium for 50 to   *)
(* 79, low below 50; so the three counts add up to summary.schemas.total.  *)
C19_Tiers ==
  Checked =>
    LET tiers == Val(Val(returned).summary.schemas)
    IN /\ tiers.total = Cardinality(DOMAIN checker.schemas)
       /\ tiers.highCompatibility = Cardinality(ScoresIn(80, 100))
       /\ tiers.mediumCompatibility = Cardinality(ScoresIn(50, 79))
       /\ tiers.lowCompatibility = Cardinality(ScoresIn(0, 49))
       /\ tiers.highCompatibility + tiers.mediumCompatibility + tiers.lowCompatibility
            = tiers.total

\* a document scored exactly 50 next to one scored exactly 80
C19_BothBoundaries ==
  /\ Checked
  /\ \E id \in DOMAIN checker.schemas : checker.schemas[id].score = 50
  /\ \E id \in DOMAIN checker.schemas : checker.schemas[id].score = 80
  /\ Val(Val(returned).summary.schemas).mediumCompatibility = 1
  /\ Val(Val(returned).summary.schemas).highCompatibility = 1

----------------------------------------------------------------------------
(* validateFiles on the batches of Spec and on batches of ten files: seven *)
(* valid documents, each requiring the next, and three with malformed YAML *)

\* the k-th valid document: it requires the next one, the last requires none
Linked(k) ==
  [BaseDoc EXCEPT !.id = <<"d", ToString(k)>>,
                  !.requires = IF k < 7
                               THEN <<<<"d", ToString(k + 1)>>>> ELSE <<>>]

\* the batch whose files at the positions of bad have malformed YAML
TenFiles(bad) ==
  [i \in 1..10 |->
     IF i \in bad THEN MalformedYaml
     ELSE File(Linked(Cardinality({j \in 1..i : j \notin bad})))]

TenBatches == {TenFiles(bad) : bad \in {b \in SUBSET (1..10) : Cardinality(b) = 3}}

CallValidateFilesBatch ==
  /\ pc = "idle"
  /\ \E paths \in SeqsUpTo(Files, MaxFiles) \cup TenBatches : filePaths' = paths
  /\ results' = <<>>
  /\ allSchemas' = EmptyMap
  /\ pc' = "first"
  /\ UNCHANGED <<dependencies, idx, firstPass, returned, arg, thrown,
                 calls, schemas, checker, exitCode>>
  /\ UNCHANGED search

NextBatches ==
  \/ CallValidateFilesBatch
  \/ FirstPassStep
  \/ FirstPassEnd
  \/ SecondPassStep
  \/ Return

SpecBatches == Init /\ [][NextBatches]_vars

\* the sum of the values of a frequency table
RECURSIVE Frequencies(_)
Frequencies(table) ==
  IF DOMAIN table = {} THEN 0
  ELSE LET t == CHOOSE type \in DOMAIN table : TRUE
       IN table[t] + Frequencies([type \in DOMAIN table \ {t} |-> table[type]])

\* the number of entries of the lists list(1), ..., list(n)
RECURSIVE EntryCount(_, _)
EntryCount(lists, n) == IF n = 0 THEN 0 ELSE Len(lists[n]) + EntryCount(lists, n - 1)

(* C13: the summary of validateFiles has total = number of files = valid + *)
(* invalid, errors = the entries of all errors lists = the sum of the      *)
(* errorTypes frequencies, warnings = the entries of all warnings lists =  *)
(* the sum of the warningTypes frequencies; a batch of 7 valid and 3       *)
(* malformed documents gives total 10, valid 7, invalid 3 and three        *)
(* parse_error entries.                                                    *)
C13_SummaryCounts ==
  Done =>
    LET summary == Val(returned).summary
        errs == [i \in 1..Len(Final) |-> Final[i].errors]
        warns == [i \in 1..Len(Final) |-> WarningsOf(Final[i])]
    IN /\ summary.total = Len(filePaths)
       /\ summary.total = summary.valid + summary.invalid
       /\ summary.valid = Cardinality({i \in 1..Len(Final) : Final[i].valid})
       /\ summary.errors = EntryCount(errs, Len(errs))
       /\ summary.errors = Frequencies(summary.errorTypes)
       /\ summary.warnings = EntryCount(warns, Len(warns))
       /\ summary.warnings = Frequencies(summary.warningTypes)
       /\ filePaths \in TenBatches =>
            /\ summary.total = 10 /\ summary.valid = 7 /\ summary.invalid = 3
            /\ summary.errorTypes["parse_error"] = 3
            /\ \A i \in 1..10 : filePaths[i] = MalformedYaml => IsParseError(Final[i])

\* a batch of ten whose malformed files are not in a row
C13_TenSummarised ==
  /\ Done
  /\ filePaths = TenFiles({2, 5, 10})
  /\ Val(returned).summary.valid = 7
  /\ Val(returned).summary.errorTypes["parse_error"] = 3

----------------------------------------------------------------------------
\* the second loop is running or over
SecondPassStarted == pc \in {"second", "done"}

\* every file has its first-pass result
FirstPassComplete ==
  /\ Len(results) = Len(filePaths)
  /\ Len(firstPass) = Len(filePaths)

\* this step runs the relationship checks of a result
RelationshipStep == pc = "second" /\ idx' = idx + 1

(* C17: a relationship check happens only after every file of the batch    *)
(* has its first-pass result, no result is altered while the first pass    *)
(* runs, and the id map is not modified once the second pass has started.  *)
C17_PassBarrier ==
  /\ [](SecondPassStarted => FirstPassComplete)
  /\ [][/\ RelationshipStep => FirstPassComplete
        /\ pc = "first" => \A i \in 1..Len(results) : results'[i] = results[i]
        /\ results' # results => (pc = "first" \/ RelationshipStep \/ pc = "idle")
        /\ SecondPassStarted => allSchemas' = allSchemas]_vars

\* the second pass has altered the first of two results
C17_SecondPassUnderWay ==
  /\ pc = "second"
  /\ idx = 2
  /\ Len(filePaths) = 2
  /\ results[1] # firstPass[1]
  /\ Cardinality(DOMAIN allSchemas) = 2

\* what validateFile gives for the file on a new validator
Alone(file) == validateFile(EmptyMap, file).result

(* C18: the first-pass result of a file (valid, errors, warnings) is the   *)
(* one the file gets on its own, whatever files were validated before it.  *)
C18_FirstPassIndependent ==
  SecondPassStarted =>
    \A i \in 1..Len(firstPass) :
      /\ firstPass[i].valid = Alone(filePaths[i]).valid
      /\ firstPass[i].errors = Alone(filePaths[i]).errors
      /\ firstPass[i].warnings = Alone(filePaths[i]).warnings

\* b requires a: valid on its own, a cyclic_dependency error after a, which
\* requires b
C18_ResultDependsOnEarlierFile ==
  /\ SecondPassStarted
  /\ Len(filePaths) = 2
  /\ Parses(filePaths[1]) /\ Parses(filePaths[2])
  /\ DocOf(filePaths[1]).id = <<"a">> /\ DocOf(filePaths[1]).requires = <<<<"b">>>>
  /\ DocOf(filePaths[2]).id = <<"b">> /\ DocOf(filePaths[2]).requires = <<<<"a">>>>
  /\ Alone(filePaths[2]).valid
  /\ ~firstPass[2].valid
  /\ CountType(firstPass[2].errors, "cyclic_dependency") = 1

\* the positions of the first-pass-valid results whose document has this id
ValidWithId(id) ==
  {i \in 1..Len(firstPass) : firstPass[i].valid /\ Val(firstPass[i].schema).id = id}

\* every document of the batch has one and the same id
OneId == Cardinality({DocOf(filePaths[i]).id : i \in 1..Len(filePaths)}) = 1

----------------------------------------------------------------------------
(* SchemaValidator.parseSchema on the text itself.  A text is a sequence   *)
(* of symbols: the characters the delimiter regex tells apart ("-", the    *)
(* newline, the space, ":"), one by one, and a run of other characters     *)
(* (a word) as one symbol.                                                 *)

NewLine == "\n"

\* \s of the regex and the characters String.prototype.trim removes
WhiteSpace == {" ", NewLine, "\t", "\r"}

\* the literal --- of the regex at position p of text
DashesAt(text, p) ==
  /\ p >= 1 /\ p + 2 <= Len(text)
  /\ text[p] = "-" /\ text[p + 1] = "-" /\ text[p + 2] = "-"

\* \s*\n from position p: the positions of the newline that can end it
DelimiterEnds(text, p) ==
  {k \in p..Len(text) :
     /\ text[k] = NewLine
     /\ \A q \in p..(k - 1) : text[q] \in WhiteSpace}

\* content.match(/^---\s*\n([\s\S]*?)\n---\s*\n([\s\S]*)$/): Undefined for null,
\* otherwise the two groups.  The first \s* is greedy (the last newline i
\* that lets the rest match), the first group is lazy (the first closing
\* delimiter j after i), the second \s* is greedy (the last newline k).
frontmatterRegex(content) ==
  LET n == Len(content)
      Closings(i) == {j \in (i + 1)..n :
                        /\ content[j] = NewLine
                        /\ DashesAt(content, j + 1)
                        /\ DelimiterEnds(content, j + 4) # {}}
      Openings == IF DashesAt(content, 1)
                  THEN {i \in DelimiterEnds(content, 4) : Closings(i) # {}}
                  ELSE {}
  IN IF Openings = {} THEN Undefined
     ELSE LET i == CHOOSE x \in Openings : \A y \in Openings : y <= x
              j == CHOOSE x \in Closings(i) : \A y \in Closings(i) : x <= y
              ends == DelimiterEnds(content, j + 4)
              k == CHOOSE x \in ends : \A y \in ends : y <= x
          IN Some([frontmatter |-> SubSeq(content, i + 1, j - 1),
                   markdownContent |-> SubSeq(content, k + 1, n)])

\* String.prototype.trim
trim(text) ==
  LET kept == {i \in 1..Len(text) : text[i] \notin WhiteSpace}
  IN IF kept = {} THEN <<>>
     ELSE SubSeq(text, CHOOSE x \in kept : \A y \in kept : x <= y,
                       CHOOSE x \in kept : \A y \in kept : y <= x)

\* the lines of a text: the segments between newlines, as [from, to]
TextLines(text) ==
  LET n == Len(text)
      starts == {1} \cup {i + 1 : i \in {q \in 1..n : text[q] = NewLine}}
      EndOf(from) == LET nl == {q \in from..n : text[q] = NewLine}
                     IN IF nl = {} THEN n
                        ELSE (CHOOSE x \in nl : \A y \in nl : x <= y) - 1
  IN {[from |-> from, to |-> EndOf(from)] : from \in starts}

----------------------------------------------------------------------------
(* js-yaml on a frontmatter block.  A block of lines "key: word", each key *)
(* once, is the mapping of its lines, and "{}" is the empty mapping.  Any  *)
(* other block may raise an exception, give no object (undefined, a        *)
(* scalar), or give some object whose fields are not modelled.             *)

FlowEmpty == "{}"

Punctuation == WhiteSpace \cup {"-", ":", FlowEmpty}

\* the key and the word of line [from, to] of block when it reads "key: word"
IsPair(block, line) ==
  /\ line.to = line.from + 3
  /\ block[line.from] \notin Punctuation
  /\ block[line.from + 1] = ":"
  /\ block[line.from + 2] = " "
  /\ block[line.from + 3] \notin Punctuation

IsFlatMapping(block) ==
  /\ block # <<>>
  /\ \A line \in TextLines(block) : IsPair(block, line)
  /\ \A l1, l2 \in TextLines(block) : block[l1.from] = block[l2.from] => l1 = l2

FlatMapping(block) ==
  LET lines == TextLines(block)
      LineOf(key) == CHOOSE line \in lines : block[line.from] = key
  IN [key \in {block[line.from] : line \in lines} |-> <<block[LineOf(key).from + 3]>>]

\* yaml.load(frontmatter): the outcomes the library can give
yamlLoad(frontmatter) ==
  IF frontmatter = <<FlowEmpty>> THEN {[kind |-> "object", fields |-> EmptyMap]}
  ELSE IF IsFlatMapping(frontmatter)
       THEN {[kind |-> "object", fields |-> FlatMapping(frontmatter)]}
       ELSE {[kind |-> k, fields |-> EmptyMap] : k \in {"exception", "undefined", "object"}}

\* the order in which yaml.dump writes the keys of a mapping
KeyOrder == <<"id", "title", "_content">>

RECURSIVE DumpFrom(_, _)
DumpFrom(O, i) ==
  IF i > Len(KeyOrder) THEN <<>>
  ELSE (IF KeyOrder[i] \in DOMAIN O
        THEN <<KeyOrder[i], ":", " ">> \o O[KeyOrder[i]] \o <<NewLine>>
        ELSE <<>>) \o DumpFrom(O, i + 1)

\* yaml.dump(O) for a mapping of plain words: one "key: word" line per key
yamlDump(O) == IF DOMAIN O = {} THEN <<FlowEmpty, NewLine>> ELSE DumpFrom(O, 1)

\* the text --- / O as YAML / --- / B
serialize(O, B) == <<"-", "-", "-", NewLine>> \o yamlDump(O) \o <<"-", "-", "-", NewLine>> \o B

----------------------------------------------------------------------------
(* parseSchema(content): the outcomes, one per outcome of yaml.load.       *)

NotFoundMessage == "Invalid format: YAML frontmatter not found"

ParseThrew(message) == [threw |-> TRUE, message |-> message, schema |-> Undefined]

\* faulty variant: the markdown is stored as matched
parseSchemaTextUntrimmed(content) ==
  LET match == frontmatterRegex(content)
  IN IF match = Undefined THEN {ParseThrew(NotFoundMessage)}
     ELSE {IF loaded.kind = "exception" THEN ParseThrew("Invalid YAML frontmatter")
           ELSE IF loaded.kind = "undefined" THEN ParseThrew("TypeError")
           ELSE [threw |-> FALSE, message |-> "",
                 schema |-> Some(MapSet(loaded.fields, "_content",
                                        Val(match).markdownContent))]
             : loaded \in yamlLoad(Val(match).frontmatter)}

parseSchemaText(content) ==
  LET match == frontmatterRegex(content)
  IN IF match = Undefined THEN {ParseThrew(NotFoundMessage)}
     ELSE {IF loaded.kind = "exception" THEN ParseThrew("Invalid YAML frontmatter")
           ELSE IF loaded.kind = "undefined" THEN ParseThrew("TypeError")
           ELSE [threw |-> FALSE, message |-> "",
                 schema |-> Some(MapSet(loaded.fields, "_content",
                                        trim(Val(match).markdownContent)))]
             : loaded \in yamlLoad(Val(match).frontmatter)}

\* one call of parseSchema on the text in arg
CallParseSchema ==
  /\ pc = "idle"
  /\ \E r \in parseSchemaText(Val(arg)) :
       /\ calls' = <<r>>
       /\ thrown' = r.threw
       /\ returned' = r.schema
  /\ pc' = "done"
  /\ UNCHANGED <<dependencies, filePaths, results, allSchemas, idx, firstPass, arg,
               schemas, checker, exitCode>>
  /\ UNCHANGED search

MaxPieces == 6

TextPieces == {<<"-", "-", "-">>, <<"-">>, <<NewLine>>, <<" ">>, <<"a">>}

Texts == {Concat(pieces) : pieces \in SeqsUpTo(TextPieces, MaxPieces)}

InitParse == Idle /\ arg \in {Some(text) : text \in Texts}

NextParse == CallParseSchema

SpecParse == InitParse /\ [][NextParse]_vars

----------------------------------------------------------------------------
(* Vocabulary of the parse claims.                                         *)

Parsed == pc = "done" /\ arg # Undefined /\ Len(calls) = 1

\* line [from, to] of text is --- (spaces after it are let through)
IsDelimiterLine(text, line) ==
  /\ DashesAt(text, line.from)
  /\ line.to >= line.from + 2
  /\ \A q \in (line.from + 3)..line.to : text[q] \in WhiteSpace

BeginsWithDelimiter(text) ==
  \E line \in TextLines(text) : line.from = 1 /\ IsDelimiterLine(text, line)

HasClosingDelimiter(text) ==
  \E line \in TextLines(text) : line.from > 1 /\ IsDelimiterLine(text, line)

\* C15: parseSchema throws 'Invalid format: YAML frontmatter not found'
\* exactly when the text does not begin with a --- line or has no later ---
\* on a line of its own.
C15_NotFoundExactly ==
  Parsed =>
    ((calls[1].threw /\ calls[1].message = NotFoundMessage)
       <=> ~(BeginsWithDelimiter(Val(arg)) /\ HasClosingDelimiter(Val(arg))))

\* C15, the case: the closing --- is the last line of the text and has no
\* newline after it; the text has both delimiter lines and is rejected.
C15_ClosingLineUnterminated ==
  /\ Parsed
  /\ Val(arg) = <<"-", "-", "-", NewLine, "a", NewLine, "-", "-", "-">>
  /\ calls[1].threw /\ calls[1].message = NotFoundMessage
  /\ returned = Undefined

----------------------------------------------------------------------------
(* parseSchema on a serialised document: arg is the pair of a mapping O of *)
(* plain words and a body B.                                               *)

MaxBodyPieces == 3

Words == {<<"a">>, <<"b">>}

Mappings == UNION {[keys -> Words] : keys \in SUBSET {"id", "title", "_content"}}

BodyPieces == {<<"-", "-", "-">>, <<NewLine>>, <<" ">>, <<"a">>}

Bodies == {Concat(pieces) : pieces \in SeqsUpTo(BodyPieces, MaxBodyPieces)}

InitRoundTrip == Idle /\ arg \in {Some([O |-> O, B |-> B]) : O \in Mappings, B \in Bodies}

CallParseSerialized ==
  /\ pc = "idle"
  /\ \E r \in parseSchemaText(serialize(Val(arg).O, Val(arg).B)) :
       /\ calls' = <<r>>
       /\ thrown' = r.threw
       /\ returned' = r.schema
  /\ pc' = "done"
  /\ UNCHANGED <<dependencies, filePaths, results, allSchemas, idx, firstPass, arg,
               schemas, checker, exitCode>>
  /\ UNCHANGED search

NextRoundTrip == CallParseSerialized

SpecRoundTrip == InitRoundTrip /\ [][NextRoundTrip]_vars

\* the record has the fields of O with their values, and _content = B trimmed
Reproduced(O, B, schema) ==
  /\ DOMAIN schema = DOMAIN O \cup {"_content"}
  /\ \A key \in DOMAIN O : schema[key] = O[key]
  /\ schema["_content"] = trim(B)

\* C16 as stated: for every mapping O and body B, parsing --- / O as YAML /
\* --- / B returns the fields of O with the same values, plus _content equal
\* to B trimmed.
C16_RoundTrip ==
  Parsed =>
    /\ ~thrown /\ returned # Undefined
    /\ Reproduced(Val(arg).O, Val(arg).B, Val(returned))

\* C16 amended: the same for every mapping O that has no _content key.
C16_RoundTripWithoutContentKey ==
  (Parsed /\ "_content" \notin DOMAIN Val(arg).O) =>
    /\ ~thrown /\ returned # Undefined
    /\ Reproduced(Val(arg).O, Val(arg).B, Val(returned))

\* C16, the case: a mapping with two fields and a body with a newline on
\* both sides came back with its fields and the body trimmed.
C16_TrimmedBodyReturned ==
  /\ Parsed
  /\ DOMAIN Val(arg).O = {"id", "title"}
  /\ Val(arg).B = <<NewLine, "a", NewLine>>
  /\ returned # Undefined
  /\ Val(returned)["_content"] = <<"a">>
  /\ Val(returned)["id"] = Val(arg).O["id"]

----------------------------------------------------------------------------
(* Scenario A on a new validator.                                          *)

\* the document of scenario A: structurally valid, kebab-case id, semantic
\* version, no requires, no conflicts, claude-code alone with compatible:
\* true alone, a body of the minimum length or more with a "#" and a fence
ScenarioA(schema) ==
  /\ schema.ajvErrors = 0
  /\ schema.id # <<>> /\ \A i \in 1..Len(schema.id) : schema.id[i] \in KebabChars
  /\ schema.version \in {<<"1", ".", "0", ".", "0">>,
                         <<"1", "0", ".", "2", ".", "3", "-", "r", "c", "-", "1">>,
                         <<"1", ".", "0", ".", "0", "+", "b">>,
                         <<"1", ".", "0", ".", "0", "-", "a", "+", "b">>}
  /\ schema.requires = <<>> /\ schema.conflicts = <<>>
  /\ schema.platforms = <<Entry("claude-code", [NoConfig EXCEPT !.compatible = Some(TRUE)])>>
  /\ schema.content.length >= 50 /\ schema.content.hasHash /\ schema.content.hasFence

\* C21: a document of scenario A, validated on a new validator, is valid
\* with no error and no warning.
C21_ScenarioAClean ==
  (pc = "done" /\ arg # Undefined /\ ScenarioA(Schema))
    => /\ ~thrown /\ returned # Undefined
       /\ Result.valid
       /\ Result.errors = <<>>
       /\ Result.warnings = Some(<<>>)

\* C21, the case: a scenario A document with a body of exactly 50
\* characters, a pre-release version and an id with a hyphen was validated
C21_ShortestBodyClean ==
  /\ Validated /\ ScenarioA(Schema)
  /\ Schema.content.length = 50
  /\ Schema.id = <<"a", "-", "1">>
  /\ Schema.version = <<"1", "0", ".", "2", ".", "3", "-", "r", "c", "-", "1">>
  /\ Result.valid /\ Result.warnings = Some(<<>>)

----------------------------------------------------------------------------
(* The three passes of validateSchema on a document that fails structural  *)
(* validation.                                                             *)

StructurallyInvalid(schema) == schema.ajvErrors > 0

\* what the business-rule pass gives for the document on a new validator
BusinessIssues(schema) == validateBusinessRules(EmptyMap, schema).errors

\* the lists the three passes give, in the order of the passes
Accumulated(schema, result) ==
  /\ result.errors = formatAjvErrors(schema.ajvErrors)
                       \o FilterSeverity(BusinessIssues(schema), "error")
                       \o FilterSeverity(validateContent(schema), "error")
  /\ WarningsOf(result) = FilterSeverity(BusinessIssues(schema), "warning")
                            \o FilterSeverity(validateContent(schema), "warning")

\* C22: when structural validation fails, validateSchema still returns a
\* result; it is not valid, its errors are the structural errors, then the
\* business-rule errors, then the content errors, and its warnings are the
\* business-rule warnings, then the content warnings.
C22_NoShortCircuit ==
  (pc = "done" /\ arg # Undefined /\ StructurallyInvalid(Schema))
    => /\ returned # Undefined
       /\ ~Result.valid
       /\ Accumulated(Schema, Result)

\* C22, the case: a document that fails structural validation and has a
\* platform entry that is null; the call threw and no list was returned
C22_StructuralErrorsLost ==
  /\ pc = "done" /\ arg # Undefined
  /\ StructurallyInvalid(Schema)
  /\ HasNull(Schema.platforms)
  /\ thrown
  /\ returned = Undefined

----------------------------------------------------------------------------
(* What hasCyclicDependencies answers, call by call on one validator.      *)

\* the ids the map leads to from the ids of S, S included
RECURSIVE ReachableIn(_, _)
ReachableIn(map, S) ==
  LET more == S \cup UNION {Elems(GetOrEmpty(map, id)) : id \in S}
  IN IF more = S THEN S ELSE ReachableIn(map, more)

\* the ids one edge or more away from id
After(map, id) == ReachableIn(map, Elems(GetOrEmpty(map, id)))

\* some cycle of the map can be reached from id (id itself need not be on it)
CycleReachable(map, id) ==
  \E n \in ReachableIn(map, {id}) : n \in After(map, n)

\* the map before the i-th call
MapBefore(i) == IF i = 1 THEN EmptyMap ELSE calls[i - 1].dependencies

----------------------------------------------------------------------------
(* CompatibilityChecker: the claude-code entry without a memory field.     *)

\* the document has a claude-code entry with compatible: true and no memory
ClaudeWithoutMemory(schema) ==
  \E i \in 1..Len(schema.platforms) :
    /\ schema.platforms[i].name = "claude-code"
    /\ Val(schema.platforms[i].config).compatible = Some(TRUE)
    /\ Val(schema.platforms[i].config).memory = Undefined

\* the missing_feature issues of the claude-code entry in the result
MissingFeatureIssues(result) ==
  LET issues == result.platforms["claude-code"].issues
  IN Filter(issues, {e \in Elems(issues) : e.type = "missing_feature"})

\* C24: a compatible claude-code entry without a memory field gets exactly
\* one issue of type missing_feature, and its severity is info.
C24_MissingMemoryIsInfo ==
  (Scored /\ ClaudeWithoutMemory(Schema))
    => /\ Len(MissingFeatureIssues(Result)) = 1
       /\ MissingFeatureIssues(Result)[1].severity = "info"

\* C24, the case: the one missing_feature issue of such an entry is a warning
C24_MissingMemoryIsWarning ==
  /\ Scored /\ ClaudeWithoutMemory(Schema)
  /\ Len(MissingFeatureIssues(Result)) = 1
  /\ MissingFeatureIssues(Result)[1].severity = "warning"

----------------------------------------------------------------------------
(* Cycles of a batch in the results of validateFiles.                      *)

\* the ids on a cycle with id (id included when it is on one)
CycleOf(id) ==
  {n \in BatchIds : n \in Closure(Requires(id)) /\ id \in Closure(Requires(n))}

\* the position in the batch of the document of ids that is validated last
LastOf(ids) ==
  LET at == {i \in 1..Len(filePaths) : Parses(filePaths[i]) /\ DocOf(filePaths[i]).id \in ids}
  IN CHOOSE i \in at : \A j \in at : j <= i

CyclicIds == {id \in BatchIds : OnCycle(id)}

----------------------------------------------------------------------------
(* The valid documents of the final results and what they require.         *)

\* the ids of the documents the list of results reports valid
ValidIds(rs) ==
  {Val(rs[i].schema).id : i \in {j \in 1..Len(rs) : rs[j].valid /\ rs[j].schema # Undefined}}

\* the ids the valid documents of the final results require
RequiredByValid ==
  UNION {Elems(Val(Final[i].schema).requires) :
           i \in {j \in 1..Len(Final) : Final[j].valid /\ Final[j].schema # Undefined}}

\* C26 as stated: every id required by a document that the final results
\* report valid is the id of a document the same results report valid.
C26_ValidClosedUnderRequires ==
  Done => RequiredByValid \subseteq ValidIds(Final)

\* C26 amended: every such id is the id of a document that was valid when
\* the first pass ended (it may be invalid in the final results).
C26_RequiresValidAfterFirstPass ==
  Done => RequiredByValid \subseteq ValidIds(firstPass)

\* C26, the case: a requires b and b requires c, which is not in the batch:
\* b is made invalid by the second pass and a stays valid
C26_ValidRequiresInvalid ==
  /\ Done
  /\ Len(filePaths) = 2
  /\ Parses(filePaths[1]) /\ Parses(filePaths[2])
  /\ DocOf(filePaths[1]).id = <<"a">> /\ DocOf(filePaths[1]).requires = <<<<"b">>>>
  /\ DocOf(filePaths[2]).id = <<"b">> /\ DocOf(filePaths[2]).requires = <<<<"c">>>>
  /\ firstPass[1].valid /\ firstPass[2].valid
  /\ Final[1].valid /\ ~Final[2].valid
  /\ <<"b">> \in RequiredByValid

----------------------------------------------------------------------------
(* The two lists of a result in what validateFiles returns.                *)

\* the entries of a list that are warnings
WarningsIn(list) == FilterSeverity(list, "warning")

\* C27: in every result that validateFiles returns the errors list holds
\* no warning (its entries have severity error, or are parse_error
\* entries), so the result is valid exactly when its errors list is empty,
\* and summary.errors counts no warning.
C27_ErrorsHoldNoWarning ==
  Done =>
    /\ \A i \in 1..Len(Final) :
         /\ \A k \in 1..Len(Final[i].errors) :
              \/ Final[i].errors[k].severity = "error"
              \/ Final[i].errors[k].type = "parse_error"
         /\ Final[i].valid <=> Final[i].errors = <<>>
    /\ Val(returned).summary.errors
         = Sum([i \in 1..Len(Final) |->
                  Len(Final[i].errors) - Len(WarningsIn(Final[i].errors))])

\* C27, the case: one document that suggests a document that is not in the
\* batch: its result is valid, its errors list holds the missing_suggestion
\* warning, and the summary counts one error and one valid document
C27_WarningInErrors ==
  /\ Done
  /\ Len(Final) = 1
  /\ Final[1].valid
  /\ Len(Final[1].errors) = 1
  /\ Final[1].errors[1].type = "missing_suggestion"
  /\ Final[1].errors[1].severity = "warning"
  /\ WarningsOf(Final[1]) = <<>>
  /\ Val(returned).summary.errors = 1
  /\ Val(returned).summary.valid = 1

----------------------------------------------------------------------------
(* validateFiles as a function of the batch, to set beside what            *)
(* checkCompatibility does with the same files in the same order.          *)

\* the results of the first loop, the validator's map being deps before it
RECURSIVE FirstPassOf(_, _)
FirstPassOf(deps, paths) ==
  IF paths = <<>> THEN <<>>
  ELSE LET r == validateFile(deps, Head(paths))
       IN <<r.result>> \o FirstPassOf(r.dependencies, Tail(paths))

\* allSchemas after the first n results
RECURSIVE AllSchemasOf(_, _, _)
AllSchemasOf(rs, paths, n) ==
  IF n = 0 THEN EmptyMap
  ELSE LET before == AllSchemasOf(rs, paths, n - 1)
       IN IF rs[n].valid /\ rs[n].schema # Undefined
          THEN MapSet(before, Val(rs[n].schema).id,
                      [schema |-> Val(rs[n].schema), filePath |-> paths[n]])
          ELSE before

\* the results validateFiles returns for the batch on a new validator
ResultsOf(paths) ==
  LET first == FirstPassOf(EmptyMap, paths)
      all == AllSchemasOf(first, paths, Len(paths))
  IN [i \in 1..Len(paths) |-> secondPass(first[i], all)]

\* the positions of the files validateFiles reports valid
ReportedValid(paths) == {i \in 1..Len(paths) : ResultsOf(paths)[i].valid}

\* C28: the files whose documents checkCompatibility analyses and scores
\* are the files validateFiles reports valid for the same batch.
C28_AnalysedAreReportedValid ==
  Checked =>
    /\ Analysed = ReportedValid(filePaths)
    /\ DOMAIN checker.schemas = {DocOf(filePaths[i]).id : i \in ReportedValid(filePaths)}

\* C28, the case: one document that requires a document that is not in the
\* batch: validateFiles reports it invalid, checkCompatibility scores it
C28_InvalidDocumentScored ==
  /\ Checked
  /\ Len(filePaths) = 1
  /\ DocOf(filePaths[1]).requires = <<<<"c">>>>
  /\ ReportedValid(filePaths) = {}
  /\ CountType(ResultsOf(filePaths)[1].errors, "missing_dependency") = 1
  /\ Analysed = {1}
  /\ DOMAIN checker.schemas = {<<"a">>}

----------------------------------------------------------------------------
(* The windsurf size limit in the two components.                          *)

\* validateContent warns about the size of the document
ValidatorWarnsSize(schema) ==
  CountType(validateContent(schema), "windsurf_size_warning") >= 1

\* the checker's result holds the size_warning of the windsurf entry / the
\* truncation issue among the cross-platform issues
CheckerWarnsSize(result) ==
  CountType(result.platforms["windsurf"].issues, "size_warning") >= 1

CheckerWarnsTruncation(result) ==
  \E k \in 1..Len(result.issues) :
    /\ result.issues[k].type = "cross_platform_issue"
    /\ result.issues[k].message = "Content may be truncated on Windsurf due to character limit"

\* C29: for a document with a compatible windsurf entry the validator emits
\* windsurf_size_warning exactly when the checker emits size_warning and
\* the truncation issue.
C29_SizeLimitAgreement ==
  (Scored /\ OptCompatible(Schema, "windsurf"))
    => /\ ValidatorWarnsSize(Schema) <=> CheckerWarnsSize(Result)
       /\ ValidatorWarnsSize(Schema) <=> CheckerWarnsTruncation(Result)

\* C29, the case: body, title and overhead stay under the limit and the
\* description takes the checker's estimate over it
C29_DescriptionCounted ==
  /\ Scored /\ OptCompatible(Schema, "windsurf")
  /\ Schema.content.length + LengthOrZero(Schema.title) + 200 < 6000
  /\ Schema.content.length + LengthOrZero(Schema.title)
       + LengthOrZero(Schema.description) + 200 > 6000
  /\ ~ValidatorWarnsSize(Schema)
  /\ CheckerWarnsSize(Result) /\ CheckerWarnsTruncation(Result)

----------------------------------------------------------------------------
(* The search of hasCyclicDependencies, one call of hasCycle at a time,    *)
(* inside the first loop of validateFiles.  A frame of stack is a call of  *)
(* hasCycle that has not returned: its schemaId, its requires and the      *)
(* position i of its loop (0: the call has not passed its two tests yet).  *)
(* pc "true" / "false": the call that was on top has just returned that.   *)

MaxSearchDocs == 2

SearchDocs ==
  {[BaseDoc EXCEPT !.id = i, !.requires = r] : i \in Ids, r \in SeqsUpTo(Ids, 2)}

Frame(schemaId, requires) == [schemaId |-> schemaId, requires |-> requires, i |-> 0]

Top == stack[Len(stack)]

Pop == SubSeq(stack, 1, Len(stack) - 1)

\* faulty variant: the visited test never holds
NeverVisited(set, schemaId) == FALSE

\* visited.has(schemaId)
AlreadyVisited(set, schemaId) == schemaId \in set

\* validateFiles(filePaths) is entered on a new validator
CallSearchBatch ==
  /\ pc = "idle"
  /\ \E paths \in SeqsUpTo({File(d) : d \in SearchDocs}, MaxSearchDocs) : filePaths' = paths
  /\ pc' = "next"
  /\ UNCHANGED <<dependencies, results, allSchemas, idx, firstPass, returned, arg, thrown,
                 calls, schemas, checker, exitCode>>
  /\ UNCHANGED search

\* hasCyclicDependencies(schema) for the next file: two new Sets, the entry
\* of the document is recorded, hasCycle(schema.id, schema.requires) is called
StartSearch ==
  /\ pc = "next"
  /\ idx < Len(filePaths)
  /\ LET schema == DocOf(filePaths[idx + 1])
     IN /\ dependencies' = MapSet(dependencies, schema.id, schema.requires)
        /\ stack' = <<Frame(schema.id, schema.requires)>>
  /\ visitedSet' = {}
  /\ recursionSet' = {}
  /\ expanded' = <<>>
  /\ pc' = "call"
  /\ UNCHANGED <<filePaths, results, allSchemas, idx, firstPass, returned, arg, thrown,
                 calls, schemas, checker, exitCode>>

\* the two tests of hasCycle, then the two add()
EnterHasCycle ==
  /\ pc = "call"
  /\ IF Top.schemaId \in recursionSet
     THEN /\ stack' = Pop
          /\ pc' = "true"
          /\ UNCHANGED <<visitedSet, recursionSet, expanded>>
     ELSE IF AlreadyVisited(visitedSet, Top.schemaId)
     THEN /\ stack' = Pop
          /\ pc' = "false"
          /\ UNCHANGED <<visitedSet, recursionSet, expanded>>
     ELSE /\ visitedSet' = visitedSet \cup {Top.schemaId}
          /\ recursionSet' = recursionSet \cup {Top.schemaId}
          /\ expanded' = Append(expanded, Top.schemaId)
          /\ stack' = [stack EXCEPT ![Len(stack)].i = 1]
          /\ pc' = "loop"
  /\ UNCHANGED <<dependencies, filePaths, results, allSchemas, idx, firstPass, returned, arg,
                 thrown, calls, schemas, checker, exitCode>>

\* for (const dependency of requires): the call for the next dependency, or
\* past the last one recursionStack.delete(schemaId) and return false
LoopHasCycle ==
  /\ pc = "loop"
  /\ IF Top.i <= Len(Top.requires)
     THEN LET dependency == Top.requires[Top.i]
          IN /\ stack' = Append(stack, Frame(dependency, GetOrEmpty(dependencies, dependency)))
             /\ pc' = "call"
             /\ UNCHANGED recursionSet
     ELSE /\ recursionSet' = recursionSet \ {Top.schemaId}
          /\ stack' = Pop
          /\ pc' = "false"
  /\ UNCHANGED <<dependencies, filePaths, results, allSchemas, idx, firstPass, returned, arg,
                 thrown, calls, schemas, checker, exitCode, visitedSet, expanded>>

\* if (hasCycle(...)) return true; otherwise the loop goes on
ReturnHasCycle ==
  /\ pc \in {"true", "false"}
  /\ stack # <<>>
  /\ IF pc = "true"
     THEN stack' = Pop /\ pc' = "true"
     ELSE stack' = [stack EXCEPT ![Len(stack)].i = @ + 1] /\ pc' = "loop"
  /\ UNCHANGED <<dependencies, filePaths, results, allSchemas, idx, firstPass, returned, arg,
                 thrown, calls, schemas, checker, exitCode, visitedSet, recursionSet, expanded>>

\* the outermost call has returned: the answer is recorded with the map as
\* it stands, and the first loop moves to the next file
FinishSearch ==
  /\ pc \in {"true", "false"}
  /\ stack = <<>>
  /\ calls' = Append(calls, [schema |-> DocOf(filePaths[idx + 1]), ret |-> pc = "true",
                             dependencies |-> dependencies])
  /\ idx' = idx + 1
  /\ pc' = "next"
  /\ UNCHANGED <<dependencies, filePaths, results, allSchemas, firstPass, returned, arg, thrown,
                 schemas, checker, exitCode>>
  /\ UNCHANGED search

\* the first loop has no file left
FinishBatch ==
  /\ pc = "next"
  /\ idx = Len(filePaths)
  /\ pc' = "done"
  /\ UNCHANGED <<dependencies, filePaths, results, allSchemas, idx, firstPass, returned, arg,
                 thrown, calls, schemas, checker, exitCode>>
  /\ UNCHANGED search

NextSearch ==
  \/ CallSearchBatch
  \/ StartSearch
  \/ EnterHasCycle
  \/ LoopHasCycle
  \/ ReturnHasCycle
  \/ FinishSearch
  \/ FinishBatch

SpecSearch == Init /\ [][NextSearch]_vars

\* a call that has started runs on: the program is one thread that nothing
\* suspends
SpecSearchFair == SpecSearch /\ WF_vars(NextSearch)

\* no id is in expanded twice
ExpandedOnce ==
  \A i, j \in 1..Len(expanded) : expanded[i] = expanded[j] => i = j

\* C30: every search of hasCyclicDependencies comes to an end, on maps with
\* cycles and self-loops too, having entered the requires list of each id
\* at most once, so the loop over the files of a batch comes to an end.
C30_SearchTerminates ==
  /\ [](pc = "idle" => <>(pc = "done"))
  /\ []ExpandedOnce

\* C30, the case: the second document closes a cycle with the first, the
\* search has found it and the batch is finished
C30_CyclicBatchFinished ==
  /\ pc = "done"
  /\ Len(calls) = 2
  /\ calls[1].schema.id = <<"a">> /\ calls[1].schema.requires = <<<<"b">>, <<"a">>>>
  /\ calls[2].schema.id = <<"b">> /\ calls[2].schema.requires = <<<<"b">>, <<"a">>>>
  /\ calls[1].ret /\ calls[2].ret
  /\ expanded = <<<<"b">>>>

====
